---- MODULE Spec2Model ----
(***************************************************************************)
(* A model of the agent orchestration core of myLobster:                   *)
(*   - the SQLite-backed swarm task queue  (shared/task-queue.js)          *)
(*   - the decomposer / level executor     (shared/task-decomposer.js)     *)
(*   - the agent message bus               (shared/smart-router.js, the    *)
(*                                           agent-comms part)             *)
(*   - the OpenAI OAuth refresh            (openai-chat.js)                *)
(*                                                                         *)
(* One module, several specifications over the same variables: each        *)
(* specification drives one subsystem and leaves the others idle.          *)
(***************************************************************************)
EXTENDS Integers, Sequences, FiniteSets, TLC

VARIABLES
  \* ---- task queue (swarm_tasks table of one swarm) ----
  tasks,      \* seq -> row of swarm_tasks
  depends,    \* seq -> metadata.depends_on of the row
  wpc,        \* worker -> position inside claimTask
  wcand,      \* worker -> candidate id selected by the SELECT
  wlist,      \* worker -> remaining pendingTasks of the checkDeps loop
  wheld,      \* worker -> the row its last claimTask returned and it still works on
  grants,     \* seq -> number of claimTask calls that returned the row
              \*        since it last became pending (observer)
  \* ---- executeDecomposed (one run) ----
  epc,        \* "idle" | "starting" | "awaiting" | "synth" | "returned"
  elevels,    \* levels: sequence of levels, each a sequence of subtask indices
  elevel,     \* index of the level being executed (1-based)
  estart,     \* how many callbacks of level.map have run up to their first await
  est,        \* subtask -> "new" | "inflight" | "backoff" | "done" | "failed"
  eattempt,   \* subtask -> attempt (loop variable of the retry loop)
  eclaimed,   \* subtask -> claimed.id
  edelay,     \* subtask -> delayMs of the setTimeout it waits on (0: none)
  elast,      \* subtask -> lastErr.message (Null: lastErr = null)
  results,    \* results[]
  errors,     \* errors[]
  allSuccess, \* allSuccess
  synthesis,  \* synthesis
  ecomplete,  \* subtask -> number of opts.onSubtaskComplete calls (observer)
  eerror,     \* subtask -> number of opts.onSubtaskError calls (observer)
  \* ---- agent-comms: messages and read_cursors of one channel ----
  msgs,       \* the rows of messages
  nextMsg,    \* number of rows inserted so far + 1 (names the next message)
  cursors,    \* agent -> read_cursors.last_read_id (NoMsg: no cursor row)
  clock,      \* the wall clock, in ticks
  ppc,        \* poster process -> "idle" | "insert"
  pnow,       \* poster process -> now of the postMessage call it is in
  prcp,       \* poster process -> recipient || null of that call
  pexp,       \* poster process -> expiresAt of that call
  delivered,  \* agent -> ids its readMessages calls returned, in order (observer)
  \* ---- openai-chat: OAuth credentials and their refresh ----
  authAccess,      \* auth.json: openai-codex.access
  authExpired,     \* auth.json: openai-codex.expires < Date.now()
  authRefresh,     \* auth.json: openai-codex.refresh is present
  refreshRunning,  \* _refreshRunning (0: null, k: the promise of refresh k)
  smokeTestPassed, \* _smokeTestPassed
  pstatus,         \* refresh k -> "none" | "fetching" | "throwing" | "ok" | "err"
  pvalue,          \* refresh k -> the token or error message it settled with
  psent,           \* refresh k -> requests sent to the OAuth endpoint (observer)
  cpc,             \* caller -> "idle" | "waiting" | "resolved" | "rejected"
  cjoin,           \* caller -> the refresh it awaits or awaited (0: none)
  cgot,            \* caller -> what resolveOpenAIAuth gave it
  \* ---- task-decomposer: decompose / decomposeAndQueue ----
  dinput,     \* subtasks as returned by JSON.parse
  dpc,        \* "idle" | "parsed" | "returned" | "threw" | "queued"
  dout,       \* what decompose returned or threw
  \* ---- task-queue.js: lifecycle hooks and the last call (observers) ----
  hooks,      \* _hooks: event -> the hooks registered with onTaskEvent
  fired,      \* the hook invocations the last operation made, in order
  lastOp,     \* the last exported operation called, and what it returned
  \* ---- task-queue.js: the swarm_tasks table across swarms ----
  table,      \* the rows of swarm_tasks (id, swarm_id, seq, description, status)
  created,    \* the last createSwarm call: its arguments and what it returned
  listed,     \* what the last getSwarmResults call returned
  \* ---- agent-comms: the last read (observer) ----
  lastRead,   \* the last readMessages / readDirect call and the rows it returned
  \* ---- agent-comms: calls with their arguments and time (observers) ----
  posted,     \* the last postMessage call: its arguments, whether it threw
  seen,       \* the last read: the call, its time and the rows it returned
  \* ---- provider adapter (openai-chat.js, anthropic-agent.js) ----
  provider,     \* the adapter module: "openai" | "anthropic"
  skipSmoke,    \* process.env.SKIP_SMOKE_TEST === '1'
  smokeRunning, \* _smokeTestRunning (0: null, k: the promise of smoke test k)
  sstatus,      \* smoke test k -> "none" | "fetching" | "passed" | "failed"
                \*                 | "skipped"
  ssent,        \* smoke test k -> smoke-test requests sent (observer)
  apc,          \* call -> "idle" | "auth" | "smoke" | "request" | "returned"
                \*         | "threw"
  ajoin,        \* call -> the smoke test it awaits or awaited (0: none)
  askip,        \* call -> its skipLog argument
  asent,        \* call -> completion requests it sent (observer)
  alog,         \* call -> the records it handed to logLlmCall (observer)
  aerr,         \* call -> the message of the error it threw (Null: none)
  resets,       \* number of token refreshes that reset _smokeTestPassed
  \* ---- smart-router.js: resolveModel over llm_calls ----
  llmCalls,     \* llm_calls of the last 24 hours, per model: COUNT(*),
                \* rows with ok = 1, SUM(duration_ms), SUM(cost_estimate)
  storeReadable,\* getLlmDb() and the query succeed
  resolved,     \* the last resolveModel call and what it returned (observer)
  \* ---- llm-router.js / model-utils.js: runLlm ----
  router,       \* which runLlm is loaded, with the model-utils it imports
  routed,       \* the last runLlm call: model, normalized, provider, adapter
  \* ---- task-queue.js: cleanCompletedSwarms ----
  cleaned,      \* the last cleanCompletedSwarms call and its result (observer)
  \* ---- task-decomposer.js: the options of executeDecomposed ----
  optSynthesize,\* opts.synthesize !== false, as evaluated after the last level
  \* ---- task-queue.js: getStaleTasks and the periodic stale reset ----
  staleRows,    \* seq -> status, agent_id and claimed_at of the row
  staleSeen,    \* the last getStaleTasks call and the ids it returned (observer)
  \* ---- openai-chat.js: the tokens in use ----
  atoken,       \* call -> the token resolveOpenAIAuth gave it, as the number of
                \*         refreshes that produced it (NoToken: none yet)
  stoken        \* smoke test k -> the token its request carries

qvars == <<tasks, depends, wpc, wcand, wlist, wheld, grants>>

wvars == <<wpc, wcand, wlist, wheld, grants>>

evars == <<epc, elevels, elevel, estart, est, eattempt, eclaimed, edelay,
           elast, results, errors, allSuccess, synthesis, ecomplete, eerror>>

mvars == <<msgs, nextMsg, cursors, clock, ppc, pnow, prcp, pexp, delivered>>

avars == <<authAccess, authExpired, authRefresh, refreshRunning,
           smokeTestPassed, pstatus, pvalue, psent, cpc, cjoin, cgot>>

dvars == <<dinput, dpc, dout>>

hvars == <<hooks, fired, lastOp>>

cvars == <<table, created, listed>>

bvars == <<posted, seen>>

svars == <<provider, skipSmoke, smokeRunning, sstatus, ssent, apc, ajoin,
           askip, asent, alog, aerr, resets>>

rvars == <<llmCalls, storeReadable, resolved>>

\* the variables of the specifications added after the first ones
lvars == <<router, routed>>

\* the variables added last
tvars == <<staleRows, staleSeen>>

\* the variables added after optSynthesize
kvars == <<atoken, stoken>>

uvars == <<tvars, kvars>>

ovars == <<optSynthesize, uvars>>

xvars == <<bvars, svars, rvars, lvars, cleaned, ovars>>

vars == <<qvars, evars, mvars, avars, dvars, hvars, cvars, lastRead, xvars>>

\* what the createSwarm specification leaves alone
nonTable == <<qvars, evars, mvars, avars, dvars, hvars, lastRead, xvars>>

\* what the worker specification leaves alone
nonQueue == <<evars, mvars, avars, dvars, hvars, cvars, lastRead, xvars>>

\* what the queue operations leave alone
nonOps == <<evars, mvars, avars, dvars, cvars, lastRead, xvars>>

\* what the executor specification leaves alone
nonExec == <<wvars, mvars, avars, dvars, hvars, cvars, lastRead, xvars>>

\* what the message bus specification leaves alone
nonMsg == <<qvars, evars, avars, dvars, hvars, cvars, lastRead, xvars>>

\* what the direct-message specification leaves alone
nonDirect == <<qvars, evars, avars, dvars, hvars, cvars, xvars>>

\* what the OAuth specification leaves alone
nonAuth == <<qvars, evars, mvars, dvars, hvars, cvars, lastRead, xvars>>

\* what the decomposition specification leaves alone
nonDecomp == <<wvars, evars, mvars, avars, hvars, cvars, lastRead, xvars>>

Null == "null"

\* "no row": the null a SELECT ... .get() or claimTask returns
NoTask == 0 - 1

\* A timestamp written by new Date().toISOString(); only its presence matters.
Stamp == "ts"

\* ---------------------------------------------------------------------------
\* Bounds
\* ---------------------------------------------------------------------------
NumTasks == 2

TaskIds == 0 .. (NumTasks - 1)

\* the agentId values the workers pass to claimTask
Workers == {"worker-1", "worker-2"}

Min(S) == CHOOSE x \in S : \A y \in S : x <= y

RECURSIVE SortedSeq(_)
SortedSeq(S) == IF S = {} THEN <<>>
                ELSE LET m == Min(S) IN <<m>> \o SortedSeq(S \ {m})

\* ---------------------------------------------------------------------------
\* task-queue.js
\* ---------------------------------------------------------------------------

\* createSwarm: the row inserted for every task
PendingRow ==
  [status |-> "pending", agent_id |-> Null, claimed_at |-> Null,
   completed_at |-> Null, result |-> Null, error |-> Null]

\* createSwarm({tasks}): seq = index, status 'pending'
createSwarm(n) == [i \in 0 .. (n - 1) |-> PendingRow]

\* SELECT id ... WHERE status = 'pending' ORDER BY seq
PendingBySeq(ts) == SortedSeq({i \in DOMAIN ts : ts[i].status = "pending"})

\* SELECT id ... WHERE status = 'pending' ORDER BY seq LIMIT 1
FirstPending(ts) ==
  LET p == PendingBySeq(ts) IN IF p = <<>> THEN NoTask ELSE Head(p)

\* the depends_on check of the checkDeps loop: allTasks[depIdx] exists and is done
DepsOk(ts, dep, c) ==
  \A d \in dep[c] : d \in DOMAIN ts /\ ts[d].status = "done"

\* the conditional UPDATE without its "AND status='pending'" predicate
ClaimUpdateUnconditional(ts, id, agent) ==
  [rows |-> [ts EXCEPT ![id].status = "claimed", ![id].agent_id = agent,
                       ![id].claimed_at = Stamp],
   changes |-> 1]

\* UPDATE ... SET status='claimed', agent_id=?, claimed_at=? WHERE id=? AND status='pending'
\* rows: the table afterwards; changes: changes.changes
ClaimUpdate(ts, id, agent) ==
  IF ts[id].status = "pending"
  THEN [rows |-> [ts EXCEPT ![id].status = "claimed", ![id].agent_id = agent,
                            ![id].claimed_at = Stamp],
        changes |-> 1]
  ELSE [rows |-> ts, changes |-> 0]

\* UPDATE swarm_tasks SET status='running' WHERE id=?
\* (an id that names no row matches nothing)
markRunningRow(ts, id) ==
  IF id \in DOMAIN ts THEN [ts EXCEPT ![id].status = "running"] ELSE ts

\* UPDATE swarm_tasks SET status='done', result=?, completed_at=? WHERE id=?
completeTaskRow(ts, id, r) ==
  IF id \in DOMAIN ts
  THEN [ts EXCEPT ![id].status = "done", ![id].result = r,
                  ![id].completed_at = Stamp]
  ELSE ts

\* UPDATE swarm_tasks SET status='failed', error=?, completed_at=? WHERE id=?
failTaskRow(ts, id, e) ==
  IF id \in DOMAIN ts
  THEN [ts EXCEPT ![id].status = "failed", ![id].error = e,
                  ![id].completed_at = Stamp]
  ELSE ts

\* check-swarms.sh: WHERE status IN ('claimed', 'running') AND claimed_at < cutoff
\* (any claimed or running row is stale once enough time has passed)
StaleResetGuard(ts, id) == ts[id].status \in {"claimed", "running"}

\* the UPDATE of resetTask without "agent_id=NULL"
resetTaskRowKeepsAgent(ts, id) ==
  IF id \in DOMAIN ts
  THEN [ts EXCEPT ![id].status = "pending", ![id].claimed_at = Null]
  ELSE ts

\* UPDATE swarm_tasks SET status='pending', agent_id=NULL, claimed_at=NULL WHERE id=?
resetTaskRow(ts, id) ==
  IF id \in DOMAIN ts
  THEN [ts EXCEPT ![id].status = "pending", ![id].agent_id = Null,
                  ![id].claimed_at = Null]
  ELSE ts

\* what a hook does when called: it returns, it throws an Error, or it
\* throws null (JavaScript throws any value)
HookOutcomes == {"returns", "throws Error", "throws null"}

\* a hook registered with onTaskEvent(event, fn)
Hook(name, outcome) == [name |-> name, outcome |-> outcome]

\* catch (err) { console.error(`... ${err.message}`) }: reading err.message
\* of null throws a TypeError inside the catch block, which leaves _fireHook
Escapes(h) == h.outcome = "throws null"

\* for (const fn of _hooks[event]) try { fn(...args) } catch (err) {...}:
\* the hooks are called in registration order until one escapes
RECURSIVE callsUntilEscape(_, _)
callsUntilEscape(hs, call) ==
  IF hs = <<>> THEN <<>>
  ELSE LET h == Head(hs)
           c == [call EXCEPT !.hook = h.name] IN
         IF Escapes(h) THEN <<c>>
         ELSE <<c>> \o callsUntilEscape(Tail(hs), call)

\* the row status a hook sees when it is called with a task id
SeenStatus(ts, id) == IF id \in DOMAIN ts THEN ts[id].status ELSE Null

\* _fireHook(event, ...args): the calls it makes.
\* ts: the table when the hooks run; id: the task the call is about
fireHook(reg, event, ts, id) ==
  callsUntilEscape(reg[event],
    [event |-> event, hook |-> Null, id |-> id, seen |-> SeenStatus(ts, id)])

\* _fireHook(event, ...args) throws instead of returning
fireHookThrows(reg, event) ==
  \E k \in 1 .. Len(reg[event]) : Escapes(reg[event][k])

\* claimTask(swarmId, agentId) run to completion inside one process
\* (better-sqlite3 is synchronous): rows afterwards and the id returned
claimTask(ts, agent) ==
  LET t == FirstPending(ts) IN
    IF t = NoTask
    THEN [rows |-> ts, id |-> NoTask]
    ELSE LET u == ClaimUpdate(ts, t, agent) IN
           IF u.changes = 0
           THEN [rows |-> u.rows, id |-> NoTask]
           ELSE [rows |-> u.rows, id |-> t]

\* the "for (const candidate of pendingTasks)" loop of the checkDeps branch
RECURSIVE claimLoop(_, _, _, _)
claimLoop(ts, dep, agent, cands) ==
  IF cands = <<>>
  THEN [rows |-> ts, id |-> NoTask]
  ELSE LET c == Head(cands) IN
         IF ~DepsOk(ts, dep, c)
         THEN claimLoop(ts, dep, agent, Tail(cands))
         ELSE LET u == ClaimUpdate(ts, c, agent) IN
                IF u.changes > 0
                THEN [rows |-> u.rows, id |-> c]
                ELSE claimLoop(u.rows, dep, agent, Tail(cands))

\* claimTask(swarmId, agentId, {checkDeps: true}) run to completion
claimTaskCheckDeps(ts, dep, agent) ==
  claimLoop(ts, dep, agent, PendingBySeq(ts))

\* The swarms the queue specifications start from: every task's depends_on
\* is a set of earlier seqs (data-model invariant (b)).
QueueShapes ==
  {d \in [TaskIds -> SUBSET TaskIds] : \A i \in TaskIds : \A x \in d[i] : x < i}

\* ---------------------------------------------------------------------------
\* SpecQueue: workers in separate processes on one swarm_tasks.db. Every SQL
\* statement is atomic; the statements of one claimTask call interleave with
\* the statements of the other processes. A worker works on the row its
\* claimTask returned (markRunning, then completeTask or failTask); the cron
\* job check-swarms.sh puts stale claimed/running rows back to pending.
\* ---------------------------------------------------------------------------
\* no executeDecomposed run
IdleExec ==
  /\ epc = "idle"
  /\ elevels = <<>>
  /\ elevel = 0
  /\ estart = 0
  /\ est = <<>>
  /\ eattempt = <<>>
  /\ eclaimed = <<>>
  /\ edelay = <<>>
  /\ elast = <<>>
  /\ results = <<>>
  /\ errors = <<>>
  /\ allSuccess = TRUE
  /\ synthesis = Null
  /\ ecomplete = <<>>
  /\ eerror = <<>>

\* "no message": the last_read_id of an agent without cursor row
NoMsg == 0

\* expires_at IS NULL
NoExpiry == 0 - 1

\* the processes that post to the channel
Posters == {"poster-1", "poster-2"}

\* the agentId values of the readers
Agents == {"agent-a", "agent-b"}

\* an empty agent_comms.db and no postMessage call under way
IdleMsg ==
  /\ msgs = {}
  /\ nextMsg = 1
  /\ cursors = [a \in Agents |-> NoMsg]
  /\ clock = 0
  /\ ppc = [p \in Posters |-> "idle"]
  /\ pnow = [p \in Posters |-> 0]
  /\ prcp = [p \in Posters |-> Null]
  /\ pexp = [p \in Posters |-> NoExpiry]
  /\ delivered = [a \in Agents |-> <<>>]

MaxRefreshes == 2

\* the refreshes of one process, numbered in the order they start
Refreshes == 1 .. MaxRefreshes

\* the concurrent runOpenAIChatPrompt calls
Callers == {"call-1", "call-2", "call-3"}

\* the smoke tests of one process, numbered in the order they start: every
\* one is started by another call
SmokeTests == 1 .. Cardinality(Callers)

\* the access token refresh k writes to auth.json (data.access_token)
NewAccess(k) == "access-" \o ToString(k)

\* no OpenAI call under way, module state as loaded
IdleAuth ==
  /\ authAccess = "access-0"
  /\ authExpired = FALSE
  /\ authRefresh = TRUE
  /\ refreshRunning = 0
  /\ smokeTestPassed = FALSE
  /\ pstatus = [k \in Refreshes |-> "none"]
  /\ pvalue = [k \in Refreshes |-> Null]
  /\ psent = [k \in Refreshes |-> 0]
  /\ cpc = [c \in Callers |-> "idle"]
  /\ cjoin = [c \in Callers |-> 0]
  /\ cgot = [c \in Callers |-> Null]

\* a value decompose has not produced
NoOutput == [ok |-> FALSE, subtasks |-> <<>>, error |-> Null]

\* no decompose call
IdleDecomp ==
  /\ dinput = <<>>
  /\ dpc = "idle"
  /\ dout = NoOutput

\* the events of _hooks
HookEvents == {"onClaim", "onComplete", "onFail", "onReset"}

\* _hooks as loaded: { onClaim: [], onComplete: [], onFail: [], onReset: [] }
NoHooks == [e \in HookEvents |-> <<>>]

\* "no operation called yet"
NoOp == [op |-> Null, id |-> NoTask, was |-> Null, returned |-> NoTask,
         threw |-> Null]

\* "no createSwarm call yet"
NoCreate == [swarmId |-> Null, tasks |-> <<>>, threw |-> FALSE,
             taskIds |-> <<>>, call |-> 0]

\* "no getSwarmResults call yet"
NoList == [swarmId |-> Null, rows |-> <<>>]

\* "no read yet"
NoRead == [op |-> Null, channel |-> Null, agent |-> Null, from |-> Null,
           rows |-> <<>>]

\* no hook registered, no queue operation called, no row of another swarm,
\* no read of the message bus
IdleHooks ==
  /\ hooks = NoHooks
  /\ fired = <<>>
  /\ lastOp = NoOp
  /\ table = {}
  /\ created = NoCreate
  /\ listed = NoList
  /\ lastRead = NoRead

\* JavaScript's undefined: an argument that was not passed, a key that is
\* absent from a JSON object
Undefined == "undefined"

\* ttlMinutes not passed
NoTtl == 0 - 1

\* the values passed as payload: a string, an object {key, value}, null,
\* or nothing
Str(s) == [t |-> "string", key |-> Null, value |-> s]

Obj(k, v) == [t |-> "object", key |-> k, value |-> v]

JsNull == [t |-> "null", key |-> Null, value |-> Null]

JsUndefined == [t |-> "undefined", key |-> Null, value |-> Null]

\* postMessage({})
NoArgs == [channel |-> Undefined, sender |-> Undefined,
           recipient |-> Undefined, type |-> Undefined,
           payload |-> JsUndefined, ttlMinutes |-> NoTtl]

\* "no postMessage call yet"
NoPost == [op |-> Null, call |-> NoArgs, threw |-> Null, stored |-> 0]

\* "no read yet", with the time of the call; call changes with every call
NoSeen == [op |-> Null, key |-> Null, at |-> 0, rows |-> <<>>, call |-> 0]

\* no adapter call, module state as loaded
IdleAdapter ==
  /\ provider = "openai"
  /\ skipSmoke = FALSE
  /\ smokeRunning = 0
  /\ sstatus = [k \in SmokeTests |-> "none"]
  /\ ssent = [k \in SmokeTests |-> 0]
  /\ apc = [c \in Callers |-> "idle"]
  /\ ajoin = [c \in Callers |-> 0]
  /\ askip = [c \in Callers |-> FALSE]
  /\ asent = [c \in Callers |-> 0]
  /\ alog = [c \in Callers |-> <<>>]
  /\ aerr = [c \in Callers |-> Null]
  /\ resets = 0

\* no call of the message bus observed
IdleBus ==
  /\ posted = NoPost
  /\ seen = NoSeen

\* the models whose calls are logged
LoggedModels == {"claude-haiku-4-5", "claude-sonnet-4-5"}

\* the rows of llm_calls: ok, duration_ms and cost_estimate
RowKinds == {[ok |-> TRUE, ms |-> 1, cost |-> 1],
             [ok |-> TRUE, ms |-> 2, cost |-> 0],
             [ok |-> FALSE, ms |-> 1, cost |-> 1]}

\* "no resolveModel call yet"
NoResolve == [strategy |-> Null, capability |-> Null, model |-> Null,
              result |-> Null]

\* an empty llm_calls.db, no resolveModel call
IdleResolve ==
  /\ llmCalls = [m \in LoggedModels |->
                   [call_count |-> 0, ok_count |-> 0, sum_ms |-> 0,
                    sum_cost |-> 0]]
  /\ storeReadable = TRUE
  /\ resolved = NoResolve

\* "no runLlm call yet"
NoRoute == [by |-> Null, model |-> <<>>, normalized |-> <<>>,
            provider |-> Null, adapter |-> Null, threw |-> Null]

\* the router is loaded, no runLlm call
IdleRoute ==
  /\ router = "llm-router.js"
  /\ routed = NoRoute

\* the variables added last are as after loading the modules
\* "const token" not assigned yet
NoToken == 0 - 1

\* "no getStaleTasks call yet"
NoStale == [staleMinutes |-> 0, ids |-> {}, call |-> 0]

\* no swarm under the stale-task specification
IdleStale ==
  /\ staleRows = <<>>
  /\ staleSeen = NoStale

\* no token handed out
IdleTokens ==
  /\ atoken = [c \in Callers |-> NoToken]
  /\ stoken = [k \in SmokeTests |-> NoToken]

IdleLater ==
  /\ optSynthesize = TRUE
  /\ IdleStale
  /\ IdleTokens

\* "no cleanCompletedSwarms call yet"
NoClean == [retentionDays |-> 0, changes |-> 0, call |-> 0]

\* none of the later specifications has acted
IdleExtra ==
  /\ IdleBus
  /\ IdleAdapter
  /\ IdleResolve
  /\ IdleRoute
  /\ cleaned = NoClean
  /\ IdleLater

\* no worker inside claimTask
IdleWorkers ==
  /\ wpc = [w \in Workers |-> "idle"]
  /\ wcand = [w \in Workers |-> NoTask]
  /\ wlist = [w \in Workers |-> <<>>]
  /\ wheld = [w \in Workers |-> NoTask]
  /\ grants = [i \in TaskIds |-> 0]

InitQueue ==
  /\ IdleExtra
  /\ IdleExec
  /\ IdleHooks
  /\ IdleMsg
  /\ IdleAuth
  /\ IdleDecomp
  /\ tasks = createSwarm(NumTasks)
  /\ depends \in QueueShapes
  /\ wpc = [w \in Workers |-> "idle"]
  /\ wcand = [w \in Workers |-> NoTask]
  /\ wlist = [w \in Workers |-> <<>>]
  /\ wheld = [w \in Workers |-> NoTask]
  /\ grants = [i \in TaskIds |-> 0]

\* claimTask without checkDeps, first statement: SELECT ... LIMIT 1;
\* "if (!task) return null"
ClaimSelect(w) ==
  /\ wpc[w] = "idle"
  /\ wheld[w] = NoTask
  /\ LET t == FirstPending(tasks) IN
       IF t = NoTask
       THEN UNCHANGED <<wpc, wcand>>
       ELSE /\ wpc' = [wpc EXCEPT ![w] = "update"]
            /\ wcand' = [wcand EXCEPT ![w] = t]
  /\ UNCHANGED <<tasks, depends, wlist, wheld, grants>>
  /\ UNCHANGED nonQueue

\* claimTask without checkDeps, second statement: the conditional UPDATE,
\* then return the row, or null when no row changed
ClaimWrite(w) ==
  /\ wpc[w] = "update"
  /\ LET id == wcand[w]
         u == ClaimUpdate(tasks, id, w) IN
       /\ tasks' = u.rows
       /\ IF u.changes > 0
          THEN /\ wheld' = [wheld EXCEPT ![w] = id]
               /\ grants' = [grants EXCEPT ![id] = @ + 1]
          ELSE UNCHANGED <<wheld, grants>>
  /\ wpc' = [wpc EXCEPT ![w] = "idle"]
  /\ wcand' = [wcand EXCEPT ![w] = NoTask]
  /\ UNCHANGED <<depends, wlist>>
  /\ UNCHANGED nonQueue

\* claimTask with checkDeps: SELECT id, metadata ... ORDER BY seq
DepsSelect(w) ==
  /\ wpc[w] = "idle"
  /\ wheld[w] = NoTask
  /\ wpc' = [wpc EXCEPT ![w] = "loop"]
  /\ wlist' = [wlist EXCEPT ![w] = PendingBySeq(tasks)]
  /\ UNCHANGED <<tasks, depends, wcand, wheld, grants>>
  /\ UNCHANGED nonQueue

\* one turn of the loop up to the UPDATE: read allTasks and check the
\* candidate's depends_on, "continue" when a dependency is not done;
\* "return null" after the last candidate
DepsCheck(w) ==
  /\ wpc[w] = "loop"
  /\ IF wlist[w] = <<>>
     THEN /\ wpc' = [wpc EXCEPT ![w] = "idle"]
          /\ UNCHANGED <<wcand, wlist>>
     ELSE LET c == Head(wlist[w]) IN
            /\ wlist' = [wlist EXCEPT ![w] = Tail(@)]
            /\ IF DepsOk(tasks, depends, c)
               THEN /\ wpc' = [wpc EXCEPT ![w] = "depsUpdate"]
                    /\ wcand' = [wcand EXCEPT ![w] = c]
               ELSE UNCHANGED <<wpc, wcand>>
  /\ UNCHANGED <<tasks, depends, wheld, grants>>
  /\ UNCHANGED nonQueue

\* the conditional UPDATE of the loop: return the row when it changed one,
\* else go on with the next candidate
DepsWrite(w) ==
  /\ wpc[w] = "depsUpdate"
  /\ LET id == wcand[w]
         u == ClaimUpdate(tasks, id, w) IN
       /\ tasks' = u.rows
       /\ IF u.changes > 0
          THEN /\ wheld' = [wheld EXCEPT ![w] = id]
               /\ grants' = [grants EXCEPT ![id] = @ + 1]
               /\ wpc' = [wpc EXCEPT ![w] = "idle"]
               /\ wlist' = [wlist EXCEPT ![w] = <<>>]
          ELSE /\ wpc' = [wpc EXCEPT ![w] = "loop"]
               /\ UNCHANGED <<wheld, grants, wlist>>
  /\ wcand' = [wcand EXCEPT ![w] = NoTask]
  /\ UNCHANGED depends
  /\ UNCHANGED nonQueue

\* the worker calls markRunning(claimed.id)
WorkerRun(w) ==
  /\ wpc[w] = "idle"
  /\ wheld[w] # NoTask
  /\ tasks[wheld[w]].status # "running"
  /\ tasks' = markRunningRow(tasks, wheld[w])
  /\ UNCHANGED <<depends, wpc, wcand, wlist, wheld, grants>>
  /\ UNCHANGED nonQueue

\* the worker calls completeTask(claimed.id, result)
WorkerComplete(w) ==
  /\ wpc[w] = "idle"
  /\ wheld[w] # NoTask
  /\ tasks' = completeTaskRow(tasks, wheld[w], "res")
  /\ wheld' = [wheld EXCEPT ![w] = NoTask]
  /\ UNCHANGED <<depends, wpc, wcand, wlist, grants>>
  /\ UNCHANGED nonQueue

\* the worker calls failTask(claimed.id, error)
WorkerFail(w) ==
  /\ wpc[w] = "idle"
  /\ wheld[w] # NoTask
  /\ tasks' = failTaskRow(tasks, wheld[w], "err")
  /\ wheld' = [wheld EXCEPT ![w] = NoTask]
  /\ UNCHANGED <<depends, wpc, wcand, wlist, grants>>
  /\ UNCHANGED nonQueue

\* check-swarms.sh, step 1, for one stale row: a claimed or running row goes
\* back to pending (the worker that held it is not told)
StaleReset(t) ==
  /\ StaleResetGuard(tasks, t)
  /\ tasks' = resetTaskRow(tasks, t)
  /\ grants' = [grants EXCEPT ![t] = 0]
  /\ UNCHANGED <<depends, wpc, wcand, wlist, wheld>>
  /\ UNCHANGED nonQueue

NextQueue ==
  \/ \E w \in Workers : ClaimSelect(w)
  \/ \E w \in Workers : ClaimWrite(w)
  \/ \E w \in Workers : DepsSelect(w)
  \/ \E w \in Workers : DepsCheck(w)
  \/ \E w \in Workers : DepsWrite(w)
  \/ \E w \in Workers : WorkerRun(w)
  \/ \E w \in Workers : WorkerComplete(w)
  \/ \E w \in Workers : WorkerFail(w)
  \/ \E t \in TaskIds : StaleReset(t)

SpecQueue == InitQueue /\ [][NextQueue]_vars

\* ---------------------------------------------------------------------------
\* SpecOps: the exported queue operations called one after the other, each
\* run to completion, by any caller, on any task id, in any order.
\* ---------------------------------------------------------------------------
\* an id that names no row of the table
MissingId == NumTasks

\* the taskId values the callers pass
OpIds == TaskIds \cup {MissingId}

\* per event a hook that throws an Error, registered before one that returns
ThrowingHooks ==
  [e \in HookEvents |->
     <<Hook(e \o "-bad", "throws Error"), Hook(e \o "-log", "returns")>>]

\* per event a hook that throws null, registered before one that returns
NullThrowingHooks ==
  [e \in HookEvents |->
     <<Hook(e \o "-null", "throws null"), Hook(e \o "-log", "returns")>>]

\* the contents of _hooks after the onTaskEvent calls of start-up
Registries == {NoHooks, ThrowingHooks, NullThrowingHooks}

\* what an operation leaves in lastOp: its name; the taskId it was given
\* (for claimTask: the id of the row its UPDATE changed, NoTask if none);
\* the status that row had when the operation was called; the id of the row
\* it returned (NoTask: null or nothing); and the error it threw (Null: it
\* returned). escaped: the _fireHook call it made threw
Called(op, id, returned, escaped) ==
  [op |-> op, id |-> id, was |-> SeenStatus(tasks, id),
   returned |-> IF escaped THEN NoTask ELSE returned,
   threw |-> IF escaped THEN "TypeError" ELSE Null]

InitOps ==
  /\ IdleExtra
  /\ IdleExec
  /\ IdleMsg
  /\ IdleAuth
  /\ IdleDecomp
  /\ IdleWorkers
  /\ tasks = createSwarm(NumTasks)
  /\ depends \in QueueShapes
  /\ hooks \in Registries
  /\ fired = <<>>
  /\ lastOp = NoOp
  /\ table = {}
  /\ created = NoCreate
  /\ listed = NoList
  /\ lastRead = NoRead

OpClaim(a) ==
  /\ LET c == claimTask(tasks, a) IN
       /\ tasks' = c.rows
       /\ grants' = IF c.id = NoTask THEN grants
                    ELSE [grants EXCEPT ![c.id] = @ + 1]
       /\ fired' = IF c.id = NoTask THEN <<>>
                   ELSE fireHook(hooks, "onClaim", c.rows, c.id)
       /\ lastOp' = Called("claimTask", c.id, c.id,
                           c.id # NoTask /\ fireHookThrows(hooks, "onClaim"))
  /\ UNCHANGED <<depends, wpc, wcand, wlist, wheld, hooks>>
  /\ UNCHANGED nonOps

OpClaimDeps(a) ==
  /\ LET c == claimTaskCheckDeps(tasks, depends, a) IN
       /\ tasks' = c.rows
       /\ grants' = IF c.id = NoTask THEN grants
                    ELSE [grants EXCEPT ![c.id] = @ + 1]
       /\ fired' = IF c.id = NoTask THEN <<>>
                   ELSE fireHook(hooks, "onClaim", c.rows, c.id)
       /\ lastOp' = Called("claimTaskCheckDeps", c.id, c.id,
                           c.id # NoTask /\ fireHookThrows(hooks, "onClaim"))
  /\ UNCHANGED <<depends, wpc, wcand, wlist, wheld, hooks>>
  /\ UNCHANGED nonOps

OpMarkRunning(t) ==
  /\ tasks' = markRunningRow(tasks, t)
  /\ fired' = <<>>
  /\ lastOp' = Called("markRunning", t, NoTask, FALSE)
  /\ UNCHANGED <<depends, wpc, wcand, wlist, wheld, grants, hooks>>
  /\ UNCHANGED nonOps

OpComplete(t) ==
  /\ tasks' = completeTaskRow(tasks, t, "res")
  /\ fired' = fireHook(hooks, "onComplete", tasks', t)
  /\ lastOp' = Called("completeTask", t, NoTask,
                      fireHookThrows(hooks, "onComplete"))
  /\ UNCHANGED <<depends, wpc, wcand, wlist, wheld, grants, hooks>>
  /\ UNCHANGED nonOps

OpFail(t) ==
  /\ tasks' = failTaskRow(tasks, t, "err")
  /\ fired' = fireHook(hooks, "onFail", tasks', t)
  /\ lastOp' = Called("failTask", t, NoTask, fireHookThrows(hooks, "onFail"))
  /\ UNCHANGED <<depends, wpc, wcand, wlist, wheld, grants, hooks>>
  /\ UNCHANGED nonOps

OpReset(t) ==
  /\ tasks' = resetTaskRow(tasks, t)
  /\ grants' = IF t \in DOMAIN grants THEN [grants EXCEPT ![t] = 0] ELSE grants
  /\ fired' = fireHook(hooks, "onReset", tasks', t)
  /\ lastOp' = Called("resetTask", t, NoTask,
                      fireHookThrows(hooks, "onReset"))
  /\ UNCHANGED <<depends, wpc, wcand, wlist, wheld, hooks>>
  /\ UNCHANGED nonOps

NextOps ==
  \/ \E a \in Workers : OpClaim(a)
  \/ \E a \in Workers : OpClaimDeps(a)
  \/ \E t \in OpIds : OpMarkRunning(t)
  \/ \E t \in OpIds : OpComplete(t)
  \/ \E t \in OpIds : OpFail(t)
  \/ \E t \in OpIds : OpReset(t)

SpecOps == InitOps /\ [][NextOps]_vars

\* ---------------------------------------------------------------------------
\* SpecClaims: k callers in separate processes, each making one claimTask
\* call (no checkDeps) on a swarm of n pending tasks; nothing else runs.
\* ---------------------------------------------------------------------------
Claimers == {"caller-1", "caller-2", "caller-3"}

InitClaims ==
  /\ IdleExtra
  /\ IdleExec
  /\ IdleHooks
  /\ IdleMsg
  /\ IdleAuth
  /\ IdleDecomp
  /\ \E n \in 0 .. NumTasks : tasks = createSwarm(n)
  /\ depends = [i \in DOMAIN tasks |-> {}]
  /\ \E K \in (SUBSET Claimers) \ {{}} :
       wpc = [c \in Claimers |-> IF c \in K THEN "idle" ELSE "absent"]
  /\ wcand = [c \in Claimers |-> NoTask]
  /\ wlist = [c \in Claimers |-> <<>>]
  /\ wheld = [c \in Claimers |-> NoTask]
  /\ grants = [i \in TaskIds |-> 0]

\* the caller's SELECT ... LIMIT 1; "if (!task) return null"
CallSelect(c) ==
  /\ wpc[c] = "idle"
  /\ LET t == FirstPending(tasks) IN
       IF t = NoTask
       THEN /\ wpc' = [wpc EXCEPT ![c] = "returned"]
            /\ UNCHANGED wcand
       ELSE /\ wpc' = [wpc EXCEPT ![c] = "update"]
            /\ wcand' = [wcand EXCEPT ![c] = t]
  /\ UNCHANGED <<tasks, depends, wlist, wheld, grants>>
  /\ UNCHANGED nonQueue

\* the caller's conditional UPDATE; "if (changes.changes === 0) return null",
\* else the row is returned
CallWrite(c) ==
  /\ wpc[c] = "update"
  /\ LET id == wcand[c]
         u == ClaimUpdate(tasks, id, c) IN
       /\ tasks' = u.rows
       /\ IF u.changes > 0
          THEN /\ wheld' = [wheld EXCEPT ![c] = id]
               /\ grants' = [grants EXCEPT ![id] = @ + 1]
          ELSE UNCHANGED <<wheld, grants>>
  /\ wpc' = [wpc EXCEPT ![c] = "returned"]
  /\ wcand' = [wcand EXCEPT ![c] = NoTask]
  /\ UNCHANGED <<depends, wlist>>
  /\ UNCHANGED nonQueue

NextClaims ==
  \/ \E c \in Claimers : CallSelect(c)
  \/ \E c \in Claimers : CallWrite(c)

SpecClaims == InitClaims /\ [][NextClaims]_vars

\* ---------------------------------------------------------------------------
\* SpecCreate: createSwarm, claimTask and getSwarmResults calls on a table
\* that holds several swarms, each call run to completion.
\* ---------------------------------------------------------------------------
\* the swarmId values the callers pass
SwarmIds == {"s1", "s2"}

\* a task of opts.tasks: with a description, or without one (the column is
\* NOT NULL)
TaskInputs == {[description |-> "work"], [description |-> Null]}

\* the values of opts.tasks
TaskLists == UNION {[1 .. n -> TaskInputs] : n \in 0 .. NumTasks}

\* `${sid}-task-${i}`
TaskIdOf(sid, i) == sid \o "-task-" \o ToString(i)

\* insert.run({...}) for taskList[i]: throws when the id exists (PRIMARY KEY)
\* or the description is missing (NOT NULL), else adds the row
insertRun(rows, sid, i, t) ==
  IF (\E r \in rows : r.id = TaskIdOf(sid, i)) \/ t.description = Null
  THEN [ok |-> FALSE, rows |-> rows]
  ELSE [ok |-> TRUE,
        rows |-> rows \cup {[id |-> TaskIdOf(sid, i), swarm_id |-> sid,
                             seq |-> i, description |-> t.description,
                             status |-> "pending"]}]

\* the body of insertAll: for (let i = 0; i < taskList.length; i++)
\* { insert.run(...); taskIds.push(id) }, from index i on (ok: did not throw)
RECURSIVE insertLoop(_, _, _, _, _)
insertLoop(rows, sid, taskList, i, taskIds) ==
  IF i >= Len(taskList)
  THEN [ok |-> TRUE, rows |-> rows, taskIds |-> taskIds]
  ELSE LET r == insertRun(rows, sid, i, taskList[i + 1]) IN
         IF ~r.ok
         THEN [ok |-> FALSE, rows |-> r.rows, taskIds |-> taskIds]
         ELSE insertLoop(r.rows, sid, taskList, i + 1,
                         Append(taskIds, TaskIdOf(sid, i)))

\* a db.transaction that keeps the rows written before the exception
transactionNoRollback(before, run) == run.rows

\* db.transaction(fn)(...): COMMIT when fn returns, ROLLBACK when it throws
transaction(before, run) == IF run.ok THEN run.rows ELSE before

\* SELECT ... FROM swarm_tasks WHERE swarm_id = ? ORDER BY seq
RECURSIVE bySeq(_)
bySeq(rows) ==
  IF rows = {} THEN <<>>
  ELSE LET r == CHOOSE x \in rows : \A y \in rows : x.seq <= y.seq
       IN <<r>> \o bySeq(rows \ {r})

getSwarmResults(rows, sid) == bySeq({r \in rows : r.swarm_id = sid})

InitCreate ==
  /\ IdleExtra
  /\ IdleExec
  /\ IdleMsg
  /\ IdleAuth
  /\ IdleDecomp
  /\ IdleWorkers
  /\ tasks = <<>>
  /\ depends = <<>>
  /\ hooks = NoHooks
  /\ fired = <<>>
  /\ lastOp = NoOp
  /\ table = {}
  /\ created = NoCreate
  /\ listed = NoList
  /\ lastRead = NoRead

\* createSwarm({swarmId: sid, tasks: taskList})
CreateSwarm(sid, taskList) ==
  /\ LET run == insertLoop(table, sid, taskList, 0, <<>>) IN
       /\ table' = transaction(table, run)
       /\ created' = [swarmId |-> sid, tasks |-> taskList, threw |-> ~run.ok,
                      taskIds |-> IF run.ok THEN run.taskIds ELSE <<>>,
                      call |-> 1 - created.call]
  /\ UNCHANGED listed
  /\ UNCHANGED nonTable

\* claimTask(sid, agentId) on the table: the lowest pending row of the swarm
\* becomes claimed
ClaimInSwarm(sid) ==
  /\ LET p == {r \in table : r.swarm_id = sid /\ r.status = "pending"} IN
       /\ p # {}
       /\ LET r == Head(bySeq(p)) IN
            table' = (table \ {r}) \cup {[r EXCEPT !.status = "claimed"]}
  /\ UNCHANGED <<created, listed>>
  /\ UNCHANGED nonTable

\* getSwarmResults(sid)
ListResults(sid) ==
  /\ listed' = [swarmId |-> sid, rows |-> getSwarmResults(table, sid)]
  /\ UNCHANGED <<table, created>>
  /\ UNCHANGED nonTable

NextCreate ==
  \/ \E sid \in SwarmIds, taskList \in TaskLists : CreateSwarm(sid, taskList)
  \/ \E sid \in SwarmIds : ClaimInSwarm(sid)
  \/ \E sid \in SwarmIds : ListResults(sid)

SpecCreate == InitCreate /\ [][NextCreate]_vars

\* ---------------------------------------------------------------------------
\* task-decomposer.js: executeDecomposed
\* ---------------------------------------------------------------------------
MaxSubtasks == 3

\* opts.maxRetries != null ? opts.maxRetries : 2
DefaultMaxRetries == 2

maxRetries == DefaultMaxRetries

\* an err.message that matches /timeout|ETIMEDOUT|rate.?limit|429|503|ECONNRESET/i
TransientMsg == "HTTP 429 rate limit"

\* an err.message that does not
FatalMsg == "Unknown provider"

ErrorMsgs == {TransientMsg, FatalMsg}

isTransient(msg) == msg = TransientMsg

\* `Dependency subtask ${dep} failed`
DepFailedMsg(dep) == "Dependency subtask " \o ToString(dep) \o " failed"

\* llmResult.text of the router call made for subtask i
ResultText(i) == "result of subtask " \o ToString(i)

\* 1000 * Math.pow(2, attempt)
RECURSIVE Pow2(_)
Pow2(k) == IF k = 0 THEN 1 ELSE 2 * Pow2(k - 1)

delayMs(attempt) == 1000 * Pow2(attempt)

\* what decompose lets through: depends_on[i] holds indices below i
ExecShapes(n) ==
  {d \in [0 .. (n - 1) -> SUBSET (0 .. (n - 1))] :
     \A i \in 0 .. (n - 1) : \A x \in d[i] : x < i}

\* the while (remaining.size > 0) loop: a level takes every remaining index
\* whose dependencies all have a level already; an empty level ends the loop
RECURSIVE BuildLevels(_, _, _)
BuildLevels(dep, remaining, levelled) ==
  IF remaining = {} THEN <<>>
  ELSE LET level == {i \in remaining : dep[i] \subseteq levelled} IN
         IF level = {} THEN <<>>
         ELSE <<SortedSeq(level)>>
                \o BuildLevels(dep, remaining \ level, levelled \cup level)

\* the indices left in `remaining` when the loop broke on an empty level
RECURSIVE Flatten(_)
Flatten(ls) == IF ls = <<>> THEN {}
               ELSE {Head(ls)[k] : k \in 1 .. Len(Head(ls))} \cup Flatten(Tail(ls))

CycleRest(dep) == (DOMAIN dep) \ Flatten(BuildLevels(dep, DOMAIN dep, {}))

\* the failTask(taskIds[i], 'Unresolvable dependency cycle') loop
RECURSIVE failAll(_, _, _)
failAll(ts, S, msg) ==
  IF S = {} THEN ts
  ELSE LET i == Min(S) IN failAll(failTaskRow(ts, i, msg), S \ {i}, msg)

\* "for (const dep of st.depends_on) if (errors[dep])": the first such dep
FailedDeps(dep, errs, i) == {d \in dep[i] : errs[d] # Null}

\* a decomposition into two chains and a free subtask:
\* 0 <- 2, 1 <- 3, and 4 without dependencies
TwoChains == [i \in 0 .. 4 |-> IF i = 2 THEN {0} ELSE IF i = 3 THEN {1} ELSE {}]

\* the decompositions the executor is run on
ExecInputs == UNION {ExecShapes(n) : n \in 1 .. MaxSubtasks} \cup {TwoChains}

\* the state after "await decomposeAndQueue" resumed and the levels were built
InitExec ==
  /\ IdleExtra
  /\ IdleWorkers
  /\ IdleHooks
  /\ IdleMsg
  /\ IdleAuth
  /\ IdleDecomp
  /\ depends \in ExecInputs
  /\ LET n == Cardinality(DOMAIN depends) IN
       /\ tasks = failAll(createSwarm(n), CycleRest(depends),
                          "Unresolvable dependency cycle")
       /\ elevels = BuildLevels(depends, 0 .. (n - 1), {})
       /\ est = [i \in 0 .. (n - 1) |-> "new"]
       /\ eattempt = [i \in 0 .. (n - 1) |-> 0]
       /\ eclaimed = [i \in 0 .. (n - 1) |-> NoTask]
       /\ edelay = [i \in 0 .. (n - 1) |-> 0]
       /\ elast = [i \in 0 .. (n - 1) |-> Null]
       /\ results = [i \in 0 .. (n - 1) |-> Null]
       /\ errors = [i \in 0 .. (n - 1) |->
                      IF i \in CycleRest(depends)
                      THEN "Unresolvable dependency cycle" ELSE Null]
       /\ allSuccess = (CycleRest(depends) = {})
       /\ ecomplete = [i \in 0 .. (n - 1) |-> 0]
       /\ eerror = [i \in 0 .. (n - 1) |-> 0]
  /\ epc = "starting"
  /\ elevel = 1
  /\ estart = 0
  /\ synthesis = Null

\* the subtasks of the level being executed
CurLevel == elevels[elevel]

\* "if (opts.onSubtask...) opts.onSubtask...(i, ...)": one more call for i
emit(count, i) == [count EXCEPT ![i] = @ + 1]

\* level.map(async (i) => ...) runs the callback of the next index of the level
\* up to its first await: dependency check, claimTask, markRunning, and the
\* first routedLlm call
StartSubtask ==
  /\ epc = "starting"
  /\ estart < Len(CurLevel)
  /\ LET i == CurLevel[estart + 1]
         fd == FailedDeps(depends, errors, i)
         c == claimTask(tasks, "decomposer")
     IN
       IF fd # {}
       THEN /\ tasks' = failTaskRow(tasks, i, DepFailedMsg(Min(fd)))
            /\ errors' = [errors EXCEPT ![i] = DepFailedMsg(Min(fd))]
            /\ allSuccess' = FALSE
            /\ eerror' = emit(eerror, i)
            /\ est' = [est EXCEPT ![i] = "failed"]
            /\ UNCHANGED eclaimed
       ELSE IF c.id = NoTask
       THEN /\ tasks' = c.rows
            /\ errors' = [errors EXCEPT ![i] = "Failed to claim task"]
            /\ allSuccess' = FALSE
            /\ eerror' = emit(eerror, i)
            /\ est' = [est EXCEPT ![i] = "failed"]
            /\ UNCHANGED eclaimed
       ELSE /\ tasks' = markRunningRow(c.rows, c.id)
            /\ eclaimed' = [eclaimed EXCEPT ![i] = c.id]
            /\ est' = [est EXCEPT ![i] = "inflight"]
            /\ UNCHANGED <<errors, allSuccess, eerror>>
  /\ estart' = estart + 1
  /\ epc' = IF estart + 1 = Len(CurLevel) THEN "awaiting" ELSE "starting"
  /\ UNCHANGED <<depends, elevels, elevel, eattempt, edelay, elast, results,
                 synthesis, ecomplete>>
  /\ UNCHANGED nonExec

\* the message of an exception thrown by a callback the caller passed in
\* opts; it does not match the transient pattern (with one that matches,
\* the catch block would in addition wait and call the router again)
CallbackMsg == "onSubtaskComplete failed"

\* what a call of opts.onSubtaskComplete does: it returns (Null) or throws
CallbackOutcomes == {Null, CallbackMsg}

\* the routedLlm call of subtask i resolves: results[i], completeTask and
\* opts.onSubtaskComplete run inside the try block, so an exception of the
\* callback is caught like a router error (thrown: what the callback does)
RouterSuccess(i, thrown) ==
  /\ est[i] = "inflight"
  /\ results' = [results EXCEPT ![i] = ResultText(i)]
  /\ ecomplete' = emit(ecomplete, i)
  /\ elast' = [elast EXCEPT ![i] = thrown]
  /\ LET completed == completeTaskRow(tasks, eclaimed[i], ResultText(i)) IN
       IF thrown = Null
       THEN /\ tasks' = completed
            /\ est' = [est EXCEPT ![i] = "done"]
            /\ UNCHANGED <<edelay, errors, allSuccess, eerror>>
       ELSE IF isTransient(thrown) /\ eattempt[i] < maxRetries
       THEN /\ tasks' = completed
            /\ edelay' = [edelay EXCEPT ![i] = delayMs(eattempt[i])]
            /\ est' = [est EXCEPT ![i] = "backoff"]
            /\ UNCHANGED <<errors, allSuccess, eerror>>
       ELSE /\ errors' = [errors EXCEPT ![i] = thrown]
            /\ allSuccess' = FALSE
            /\ tasks' = failTaskRow(completed, eclaimed[i], thrown)
            /\ eerror' = emit(eerror, i)
            /\ est' = [est EXCEPT ![i] = "failed"]
            /\ UNCHANGED edelay
  /\ UNCHANGED <<depends, epc, elevels, elevel, estart, eattempt, eclaimed,
                 synthesis>>
  /\ UNCHANGED nonExec

\* the routedLlm call of subtask i rejects with err.message = msg
RouterError(i, msg) ==
  /\ est[i] = "inflight"
  /\ epc = "awaiting"
  /\ elast' = [elast EXCEPT ![i] = msg]
  /\ IF isTransient(msg) /\ eattempt[i] < maxRetries
     THEN /\ edelay' = [edelay EXCEPT ![i] = delayMs(eattempt[i])]
          /\ est' = [est EXCEPT ![i] = "backoff"]
          /\ UNCHANGED <<tasks, errors, allSuccess, eerror>>
     ELSE /\ errors' = [errors EXCEPT ![i] = msg]
          /\ allSuccess' = FALSE
          /\ tasks' = failTaskRow(tasks, eclaimed[i], msg)
          /\ eerror' = emit(eerror, i)
          /\ est' = [est EXCEPT ![i] = "failed"]
          /\ UNCHANGED edelay
  /\ UNCHANGED <<depends, epc, elevels, elevel, estart, eattempt, eclaimed,
                 results, synthesis, ecomplete>>
  /\ UNCHANGED nonExec

\* the setTimeout(r, delayMs) of subtask i fires: "continue" with attempt + 1
\* and the next routedLlm call
BackoffElapsed(i) ==
  /\ est[i] = "backoff"
  /\ epc = "awaiting"
  /\ eattempt' = [eattempt EXCEPT ![i] = @ + 1]
  /\ edelay' = [edelay EXCEPT ![i] = 0]
  /\ est' = [est EXCEPT ![i] = "inflight"]
  /\ UNCHANGED <<tasks, depends, epc, elevels, elevel, estart, eclaimed,
                 elast, results, errors, allSuccess, synthesis, ecomplete,
                 eerror>>
  /\ UNCHANGED nonExec

\* every callback of the level returned
LevelFinished ==
  \A k \in 1 .. Len(CurLevel) : est[CurLevel[k]] \in {"done", "failed"}

\* Promise.all of the level resolves: the for loop goes to the next level
NextLevel ==
  /\ epc = "awaiting"
  /\ LevelFinished
  /\ elevel < Len(elevels)
  /\ elevel' = elevel + 1
  /\ estart' = 0
  /\ epc' = "starting"
  /\ UNCHANGED <<tasks, depends, elevels, est, eattempt, eclaimed, edelay,
                 elast, results, errors, allSuccess, synthesis, ecomplete,
                 eerror>>
  /\ UNCHANGED nonExec

\* after the last level: opts.synthesize !== false && results.some(r => r !== null)
\* makes the synthesis routedLlm call, otherwise the function returns
AfterLevels(synthesize) ==
  /\ epc = "awaiting"
  /\ LevelFinished
  /\ elevel = Len(elevels)
  /\ epc' = IF synthesize /\ \E i \in DOMAIN results : results[i] # Null
            THEN "synth" ELSE "returned"
  /\ optSynthesize' = synthesize
  /\ UNCHANGED <<tasks, depends, elevels, elevel, estart, est, eattempt,
                 eclaimed, edelay, elast, results, errors, allSuccess, synthesis,
                 ecomplete, eerror>>
  /\ UNCHANGED <<wvars, mvars, avars, dvars, hvars, cvars, lastRead, bvars,
                 svars, rvars, lvars, cleaned, uvars>>

\* subtasks[i].description
Description(i) == "subtask " \o ToString(i)

\* results.map((r, i) => r ? `[${subtasks[i].description}]: ${r}` : null)
\*   .filter(Boolean).join('\n\n---\n\n'), from index i on
RECURSIVE joinResults(_, _)
joinResults(res, i) ==
  IF i \notin DOMAIN res THEN ""
  ELSE IF res[i] \in {Null, ""} THEN joinResults(res, i + 1)
  ELSE LET rest == joinResults(res, i + 1) IN
         "[" \o Description(i) \o "]: " \o res[i]
           \o (IF rest = "" THEN "" ELSE " --- " \o rest)

resultsText(res) == joinResults(res, 0)

\* synthResult.text of the balanced-strategy router call
SynthesisText == "synthesis of the results"

\* a catch block that leaves synthesis as it was
keepsNull(res) == Null

\* catch (err) { synthesis = resultsText }
synthesisFallback(res) == resultsText(res)

\* the synthesis call resolves (synthResult.text) or rejects (resultsText)
SynthesisSettles(ok) ==
  /\ epc = "synth"
  /\ synthesis' = IF ok THEN SynthesisText ELSE synthesisFallback(results)
  /\ epc' = "returned"
  /\ UNCHANGED <<tasks, depends, elevels, elevel, estart, est, eattempt,
                 eclaimed, edelay, elast, results, errors, allSuccess,
                 ecomplete, eerror>>
  /\ UNCHANGED nonExec

NextExec ==
  \/ StartSubtask
  \/ \E i \in DOMAIN est : \E thrown \in CallbackOutcomes :
       RouterSuccess(i, thrown)
  \/ \E i \in DOMAIN est : \E msg \in ErrorMsgs : RouterError(i, msg)
  \/ \E i \in DOMAIN est : BackoffElapsed(i)
  \/ NextLevel
  \/ \E synthesize \in BOOLEAN : AfterLevels(synthesize)
  \/ \E ok \in BOOLEAN : SynthesisSettles(ok)

SpecExec == InitExec /\ [][NextExec]_vars

\* every pending await of the run settles: router calls resolve or reject
\* (routedLlm has a timeout), timers fire, continuations run
SpecExecFair == SpecExec /\ WF_vars(NextExec)

\* ---------------------------------------------------------------------------
\* agent-comms (second part of smart-router.js): one channel of the bus.
\* SpecMsg: processes that post and agents that read share agent_comms.db;
\* every SQL statement is atomic. postMessage takes its timestamps, then runs
\* its INSERT; readMessages and cleanExpired are taken as one step each (what
\* another process inserts between the statements of a readMessages call is
\* seen as if it had been inserted before or after the call).
\* ---------------------------------------------------------------------------
MaxMsgs == 3

MaxClock == 2

\* ticks per UTC day
TicksPerDay == MaxClock

\* opts.limit || 50
DefaultLimit == 50

\* the ttlMinutes values passed to postMessage, in ticks (0: none given)
Ttls == {0, 1}

\* the limits passed to readMessages
Limits == {1, DefaultLimit}

Max(S) == CHOOSE x \in S : \A y \in S : x >= y

\* the date part of a timestamp
Day(t) == t \div TicksPerDay

\* ttlMinutes ? new Date(Date.now() + ttlMinutes * 60_000).toISOString() : null
expiresAt(now, ttl) == IF ttl = 0 THEN NoExpiry ELSE now + ttl

\* expires_at > datetime('now'): expires_at is an ISO string ('...T...Z'),
\* datetime('now') is 'YYYY-MM-DD HH:MM:SS'; compared as text, equal dates are
\* decided by 'T' > ' ', so the comparison is one of dates
ExpiresAfterNow(e, now) == Day(e) >= Day(now)

\* expires_at < datetime('now'), compared as text
ExpiresBeforeNow(e, now) == Day(e) < Day(now)

\* the rowid SQLite gives a new row of a table without INTEGER PRIMARY KEY
newRowid(rows) == IF rows = {} THEN 1 ELSE Max({m.rowid : m \in rows}) + 1

\* rowid > (SELECT rowid FROM messages WHERE id = ?): false for every row
\* when the cursor's message is gone (comparison with NULL)
AfterCursor(rows, m, cur) ==
  \/ cur = NoMsg
  \/ \E c \in rows : c.id = cur /\ m.rowid > c.rowid

\* WHERE channel = ? AND (expires_at IS NULL OR expires_at > datetime('now'))
\* AND (recipient IS NULL OR recipient = ?) AND rowid > (cursor's rowid)
Unread(rows, agent, cur, now) ==
  {m \in rows :
     /\ m.expires_at = NoExpiry \/ ExpiresAfterNow(m.expires_at, now)
     /\ m.recipient = Null \/ m.recipient = agent
     /\ AfterCursor(rows, m, cur)}

\* ORDER BY created_at ASC: rows with equal created_at come out in rowid
\* order (the order in which the scan feeds them to the sorter)
RECURSIVE OrderByCreatedAt(_)
OrderByCreatedAt(S) ==
  IF S = {} THEN <<>>
  ELSE LET m == CHOOSE x \in S : \A y \in S :
                  \/ x.created_at < y.created_at
                  \/ x.created_at = y.created_at /\ x.rowid <= y.rowid
       IN <<m>> \o OrderByCreatedAt(S \ {m})

\* LIMIT ?
TakeLimit(q, limit) == SubSeq(q, 1, IF Len(q) < limit THEN Len(q) ELSE limit)

\* const messages = db.prepare(query).all(...params)
readQuery(rows, agent, cur, now, limit) ==
  TakeLimit(OrderByCreatedAt(Unread(rows, agent, cur, now)), limit)

InitMsg ==
  /\ IdleExtra
  /\ IdleWorkers
  /\ IdleHooks
  /\ IdleExec
  /\ IdleAuth
  /\ IdleDecomp
  /\ tasks = <<>>
  /\ depends = <<>>
  /\ IdleMsg

\* postMessage up to its INSERT: now, recipient || null, expiresAt
PostBegin(p, recipient, ttl) ==
  /\ ppc[p] = "idle"
  /\ nextMsg + Cardinality({q \in Posters : ppc[q] = "insert"}) <= MaxMsgs
  /\ ppc' = [ppc EXCEPT ![p] = "insert"]
  /\ pnow' = [pnow EXCEPT ![p] = clock]
  /\ prcp' = [prcp EXCEPT ![p] = recipient]
  /\ pexp' = [pexp EXCEPT ![p] = expiresAt(clock, ttl)]
  /\ UNCHANGED <<msgs, nextMsg, cursors, clock, delivered>>
  /\ UNCHANGED nonMsg

\* the INSERT INTO messages of postMessage, and its return
PostInsert(p) ==
  /\ ppc[p] = "insert"
  /\ msgs' = msgs \cup {[rowid |-> newRowid(msgs), id |-> nextMsg,
                         recipient |-> prcp[p], created_at |-> pnow[p],
                         expires_at |-> pexp[p]]}
  /\ nextMsg' = nextMsg + 1
  /\ ppc' = [ppc EXCEPT ![p] = "idle"]
  /\ pnow' = [pnow EXCEPT ![p] = 0]
  /\ prcp' = [prcp EXCEPT ![p] = Null]
  /\ pexp' = [pexp EXCEPT ![p] = NoExpiry]
  /\ UNCHANGED <<cursors, clock, delivered>>
  /\ UNCHANGED nonMsg

\* readMessages(channel, {agentId, limit}) returning at least one message:
\* the cursor moves to the last message returned
ReadMessages(a, limit) ==
  /\ LET messages == readQuery(msgs, a, cursors[a], clock, limit) IN
       /\ Len(messages) > 0
       /\ Len(delivered[a]) <= MaxMsgs
       /\ cursors' = [cursors EXCEPT ![a] = messages[Len(messages)].id]
       /\ delivered' = [delivered EXCEPT ![a] =
                          @ \o [k \in 1 .. Len(messages) |-> messages[k].id]]
  /\ UNCHANGED <<msgs, nextMsg, clock, ppc, pnow, prcp, pexp>>
  /\ UNCHANGED nonMsg

\* cleanExpired() deleting at least one row
CleanExpired ==
  /\ LET gone == {m \in msgs : m.expires_at # NoExpiry
                                /\ ExpiresBeforeNow(m.expires_at, clock)} IN
       /\ gone # {}
       /\ msgs' = msgs \ gone
  /\ UNCHANGED <<nextMsg, cursors, clock, ppc, pnow, prcp, pexp, delivered>>
  /\ UNCHANGED nonMsg

\* time passes
Tick ==
  /\ clock < MaxClock
  /\ clock' = clock + 1
  /\ UNCHANGED <<msgs, nextMsg, cursors, ppc, pnow, prcp, pexp, delivered>>
  /\ UNCHANGED nonMsg

NextMsg ==
  \/ \E p \in Posters : \E r \in {Null} \cup Agents : \E ttl \in Ttls :
       PostBegin(p, r, ttl)
  \/ \E p \in Posters : PostInsert(p)
  \/ \E a \in Agents : \E limit \in Limits : ReadMessages(a, limit)
  \/ CleanExpired
  \/ Tick

SpecMsg == InitMsg /\ [][NextMsg]_vars

\* ---------------------------------------------------------------------------
\* SpecDirect: broadcast, addressed and direct messages of several senders
\* on two channels, read with readMessages and readDirect. Every call runs
\* to completion.
\* ---------------------------------------------------------------------------
MaxDirect == 2

\* `dm:${[sender, recipient].sort().join(':')}`
dmChannel(sender, recipient) ==
  IF sender = recipient THEN "dm:" \o sender \o ":" \o sender
  ELSE "dm:agent-a:agent-b"

\* the channel the swarm posts to
SwarmChannel == "swarm"

\* the channels read with readMessages
Channels == {SwarmChannel, dmChannel("agent-a", "agent-b")}

\* a row of messages that does not pass "recipient = ?"
DirectMatchAnyRecipient(m, agent, from) ==
  from # Null => m.sender = from

\* readDirect: WHERE recipient = ? [AND sender = ?] (the sender is compared
\* only "if (fromAgent)")
DirectMatch(m, agent, from) ==
  /\ m.recipient = agent
  /\ from # Null => m.sender = from

\* readDirect(agentId, fromAgent, {limit}): the rows it returns
directQuery(rows, agent, from, now, limit) ==
  TakeLimit(
    OrderByCreatedAt(
      {m \in rows :
         /\ DirectMatch(m, agent, from)
         /\ m.expires_at = NoExpiry \/ ExpiresAfterNow(m.expires_at, now)}),
    limit)

InitDirect ==
  /\ IdleExtra
  /\ IdleWorkers
  /\ IdleHooks
  /\ IdleExec
  /\ IdleAuth
  /\ IdleDecomp
  /\ tasks = <<>>
  /\ depends = <<>>
  /\ msgs = {}
  /\ nextMsg = 1
  /\ cursors = [a \in Agents, ch \in Channels |-> NoMsg]
  /\ clock = 0
  /\ ppc = [p \in Posters |-> "idle"]
  /\ pnow = [p \in Posters |-> 0]
  /\ prcp = [p \in Posters |-> Null]
  /\ pexp = [p \in Posters |-> NoExpiry]
  /\ delivered = [a \in Agents |-> <<>>]

\* postMessage({channel, sender, recipient, ttlMinutes})
Post(channel, sender, recipient, ttl) ==
  /\ nextMsg <= MaxDirect
  /\ msgs' = msgs \cup {[rowid |-> newRowid(msgs), id |-> nextMsg,
                         channel |-> channel, sender |-> sender,
                         recipient |-> recipient, created_at |-> clock,
                         expires_at |-> expiresAt(clock, ttl)]}
  /\ nextMsg' = nextMsg + 1
  /\ UNCHANGED <<cursors, clock, ppc, pnow, prcp, pexp, delivered, lastRead>>
  /\ UNCHANGED nonDirect

\* sendDirect(sender, recipient, payload, {ttlMinutes})
SendDirect(sender, recipient, ttl) ==
  Post(dmChannel(sender, recipient), sender, recipient, ttl)

\* readMessages(channel, {agentId, limit}): the cursor moves when a message
\* is returned
ReadChannel(channel, a, limit) ==
  /\ LET messages == readQuery({m \in msgs : m.channel = channel}, a,
                               cursors[a, channel], clock, limit) IN
       /\ cursors' = IF Len(messages) > 0
                     THEN [cursors EXCEPT ![a, channel] =
                             messages[Len(messages)].id]
                     ELSE cursors
       /\ lastRead' = [op |-> "readMessages", channel |-> channel,
                       agent |-> a, from |-> Null, rows |-> messages]
  /\ UNCHANGED <<msgs, nextMsg, clock, ppc, pnow, prcp, pexp, delivered>>
  /\ UNCHANGED nonDirect

\* readDirect(agentId, fromAgent, {limit})
ReadDirect(a, from, limit) ==
  /\ lastRead' = [op |-> "readDirect", channel |-> Null, agent |-> a,
                  from |-> from,
                  rows |-> directQuery(msgs, a, from, clock, limit)]
  /\ UNCHANGED <<msgs, nextMsg, cursors, clock, ppc, pnow, prcp, pexp,
                 delivered>>
  /\ UNCHANGED nonDirect

\* a day passes
TickDirect ==
  /\ clock < TicksPerDay
  /\ clock' = clock + TicksPerDay
  /\ UNCHANGED <<msgs, nextMsg, cursors, ppc, pnow, prcp, pexp, delivered,
                 lastRead>>
  /\ UNCHANGED nonDirect

NextDirect ==
  \/ \E s \in Agents : \E r \in {Null} \cup Agents :
       Post(SwarmChannel, s, r, 0)
  \/ \E s \in Agents : \E r \in Agents \ {s} : \E ttl \in Ttls :
       SendDirect(s, r, ttl)
  \/ \E ch \in Channels : \E a \in Agents :
       ReadChannel(ch, a, DefaultLimit)
  \/ \E a \in Agents : \E from \in {Null} \cup Agents :
       ReadDirect(a, from, DefaultLimit)
  \/ TickDirect

SpecDirect == InitDirect /\ [][NextDirect]_vars

\* ---------------------------------------------------------------------------
\* openai-chat.js: resolveOpenAIAuth and refreshOpenAIToken in one process.
\* Synchronous code runs to its next await; an HTTP response and the
\* continuations it releases are taken up in later steps.
\* ---------------------------------------------------------------------------

\* "if (_refreshRunning) return _refreshRunning" taken as if the marker were
\* never set
JoinNever(marker) == FALSE

\* if (_refreshRunning) return _refreshRunning
JoinsRunning(marker) == marker # 0

\* the refresh a refreshOpenAIToken call would start
NextRefresh == Min({k \in Refreshes : pstatus[k] = "none"})

InitAuth ==
  /\ IdleExtra
  /\ IdleWorkers
  /\ IdleHooks
  /\ IdleExec
  /\ IdleMsg
  /\ IdleDecomp
  /\ tasks = <<>>
  /\ depends = <<>>
  /\ authAccess = "access-0"
  /\ authExpired \in BOOLEAN
  /\ authRefresh \in BOOLEAN
  /\ refreshRunning = 0
  /\ smokeTestPassed \in BOOLEAN
  /\ pstatus = [k \in Refreshes |-> "none"]
  /\ pvalue = [k \in Refreshes |-> Null]
  /\ psent = [k \in Refreshes |-> 0]
  /\ cpc = [c \in Callers |-> "idle"]
  /\ cjoin = [c \in Callers |-> 0]
  /\ cgot = [c \in Callers |-> Null]

\* resolveOpenAIAuth up to its return or its await: read auth.json; a token
\* that is not expired is returned; otherwise refreshOpenAIToken() either
\* hands out the promise in _refreshRunning or starts a refresh, whose body
\* runs up to the fetch (or throws when auth.json holds no refresh token)
ResolveAuth(c) ==
  /\ cpc[c] = "idle"
  /\ IF ~authExpired
     THEN /\ cpc' = [cpc EXCEPT ![c] = "resolved"]
          /\ cgot' = [cgot EXCEPT ![c] = authAccess]
          /\ cjoin' = [cjoin EXCEPT ![c] = 0]
          /\ UNCHANGED <<refreshRunning, pstatus, pvalue, psent>>
     ELSE IF JoinsRunning(refreshRunning)
     THEN /\ cpc' = [cpc EXCEPT ![c] = "waiting"]
          /\ cjoin' = [cjoin EXCEPT ![c] = refreshRunning]
          /\ cgot' = [cgot EXCEPT ![c] = Null]
          /\ UNCHANGED <<refreshRunning, pstatus, pvalue, psent>>
     ELSE /\ \E k \in Refreshes : pstatus[k] = "none"
          /\ LET k == NextRefresh IN
               /\ refreshRunning' = k
               /\ pstatus' = [pstatus EXCEPT ![k] =
                                IF authRefresh THEN "fetching" ELSE "throwing"]
               /\ psent' = [psent EXCEPT ![k] = IF authRefresh THEN 1 ELSE 0]
               /\ cjoin' = [cjoin EXCEPT ![c] = k]
          /\ cpc' = [cpc EXCEPT ![c] = "waiting"]
          /\ cgot' = [cgot EXCEPT ![c] = Null]
          /\ UNCHANGED pvalue
  /\ UNCHANGED <<authAccess, authExpired, authRefresh, smokeTestPassed>>
  /\ UNCHANGED nonAuth

\* the OAuth endpoint answers refresh k. ok: auth.json is rewritten,
\* _smokeTestPassed is reset and the promise resolves with the new token;
\* otherwise it rejects ('Token refresh failed HTTP ...'). Then the finally
\* callback clears _refreshRunning.
RefreshResponds(k, ok) ==
  /\ pstatus[k] = "fetching"
  /\ IF ok
     THEN /\ authAccess' = NewAccess(k)
          /\ authExpired' = FALSE
          /\ smokeTestPassed' = FALSE
          /\ pstatus' = [pstatus EXCEPT ![k] = "ok"]
          /\ pvalue' = [pvalue EXCEPT ![k] = NewAccess(k)]
     ELSE /\ pstatus' = [pstatus EXCEPT ![k] = "err"]
          /\ pvalue' = [pvalue EXCEPT ![k] = "Token refresh failed HTTP"]
          /\ UNCHANGED <<authAccess, authExpired, smokeTestPassed>>
  /\ refreshRunning' = 0
  /\ UNCHANGED <<authRefresh, psent, cpc, cjoin, cgot>>
  /\ UNCHANGED nonAuth

\* the promise of a refresh that threw before its fetch settles: rejected,
\* and the finally callback clears _refreshRunning
RefreshThrows(k) ==
  /\ pstatus[k] = "throwing"
  /\ pstatus' = [pstatus EXCEPT ![k] = "err"]
  /\ pvalue' = [pvalue EXCEPT ![k] = "No refresh token available"]
  /\ refreshRunning' = 0
  /\ UNCHANGED <<authAccess, authExpired, authRefresh, smokeTestPassed,
                 psent, cpc, cjoin, cgot>>
  /\ UNCHANGED nonAuth

\* "return await refreshOpenAIToken()" resumes in caller c
ResumeCaller(c) ==
  /\ cpc[c] = "waiting"
  /\ pstatus[cjoin[c]] \in {"ok", "err"}
  /\ cpc' = [cpc EXCEPT ![c] = IF pstatus[cjoin[c]] = "ok"
                                THEN "resolved" ELSE "rejected"]
  /\ cgot' = [cgot EXCEPT ![c] = pvalue[cjoin[c]]]
  /\ UNCHANGED <<authAccess, authExpired, authRefresh, refreshRunning,
                 smokeTestPassed, pstatus, pvalue, psent, cjoin>>
  /\ UNCHANGED nonAuth

\* the call of c is over; c may call again
CallEnds(c) ==
  /\ cpc[c] \in {"resolved", "rejected"}
  /\ cpc' = [cpc EXCEPT ![c] = "idle"]
  /\ cjoin' = [cjoin EXCEPT ![c] = 0]
  /\ cgot' = [cgot EXCEPT ![c] = Null]
  /\ UNCHANGED <<authAccess, authExpired, authRefresh, refreshRunning,
                 smokeTestPassed, pstatus, pvalue, psent>>
  /\ UNCHANGED nonAuth

\* time passes beyond openai-codex.expires
TokenExpires ==
  /\ ~authExpired
  /\ authExpired' = TRUE
  /\ UNCHANGED <<authAccess, authRefresh, refreshRunning, smokeTestPassed,
                 pstatus, pvalue, psent, cpc, cjoin, cgot>>
  /\ UNCHANGED nonAuth

NextAuth ==
  \/ \E c \in Callers : ResolveAuth(c)
  \/ \E k \in Refreshes : \E ok \in BOOLEAN : RefreshResponds(k, ok)
  \/ \E k \in Refreshes : RefreshThrows(k)
  \/ \E c \in Callers : ResumeCaller(c)
  \/ \E c \in Callers : CallEnds(c)
  \/ TokenExpires

SpecAuth == InitAuth /\ [][NextAuth]_vars

\* ---------------------------------------------------------------------------
\* task-decomposer.js: decompose (validation of the parsed array) and
\* decomposeAndQueue
\* ---------------------------------------------------------------------------
MaxEntries == 2

\* JSON numbers and a JSON string, as elements of depends_on
IntDep(n) == [t |-> "integer", v |-> n]

FracDep == [t |-> "fraction", v |-> 0]

StrDep == [t |-> "string", v |-> 0]

DepValues == {IntDep(0 - 1), IntDep(0), IntDep(1), FracDep, StrDep}

\* depends_on arrays
DepLists ==
  {<<>>} \cup {<<v>> : v \in DepValues}
         \cup {<<IntDep(0), IntDep(0)>>, <<IntDep(0), IntDep(1)>>}

\* depends_on: absent (or null), an array, or a truthy value that is no array
DepFields ==
  {[kind |-> "absent", list |-> <<>>], [kind |-> "scalar", list |-> <<>>]}
    \cup {[kind |-> "array", list |-> l] : l \in DepLists}

\* the objects of the parsed array
Entries ==
  [description : {Undefined, "", "step"},
   capability : {Undefined, "coding"},
   mode : {Undefined, "agent"},
   depends_on : DepFields]

\* the arrays of n objects JSON.parse returns
ParsedArrays(n) == [1 .. n -> Entries]

\* !v for a string or absent value
Falsy(v) == v \in {Undefined, ""}

\* st.capability || 'reasoning', st.mode || 'inline', st.depends_on || []
withDefaults(st) ==
  [description |-> st.description,
   capability |-> IF Falsy(st.capability) THEN "reasoning" ELSE st.capability,
   mode |-> IF Falsy(st.mode) THEN "inline" ELSE st.mode,
   depends_on |-> IF st.depends_on.kind = "absent"
                  THEN [kind |-> "array", list |-> <<>>] ELSE st.depends_on]

\* typeof dep !== 'number' || !Number.isInteger(dep) || dep < 0
\*   || dep >= subtasks.length: 'invalid dependency index'
DepOutOfRange(dep, n) == dep.t # "integer" \/ dep.v < 0 \/ dep.v >= n

\* the forward check left out
NoForwardCheck(dep, i) == FALSE

\* dep >= i: 'forward/circular dependency'
DepForward(dep, i) == dep.v >= i

\* the subtasks (0-based i) on which the second loop throws; a depends_on
\* that is no array throws when "for ... of" iterates it
BadDeps(sts) ==
  {i \in 0 .. (Len(sts) - 1) :
     LET f == sts[i + 1].depends_on IN
       \/ f.kind = "scalar"
       \/ \E k \in 1 .. Len(f.list) :
            DepOutOfRange(f.list[k], Len(sts)) \/ DepForward(f.list[k], i)}

Threw(msg) == [ok |-> FALSE, subtasks |-> <<>>, error |-> msg]

\* decompose from "Validate structure" on
decomposeParsed(subtasks) ==
  IF Len(subtasks) = 0
  THEN Threw("Decomposition failed: empty subtask list")
  ELSE IF \E i \in 1 .. Len(subtasks) : Falsy(subtasks[i].description)
  THEN Threw("Subtask missing description")
  ELSE LET sts == [i \in 1 .. Len(subtasks) |-> withDefaults(subtasks[i])] IN
         IF BadDeps(sts) # {}
         THEN Threw("Subtask has invalid or forward dependency")
         ELSE [ok |-> TRUE, subtasks |-> sts, error |-> Null]

\* metadata.depends_on of the queued task i
queuedDeps(sts, i) ==
  {sts[i + 1].depends_on.list[k].v : k \in 1 .. Len(sts[i + 1].depends_on.list)}

InitDecomp ==
  /\ IdleExtra
  /\ IdleWorkers
  /\ IdleHooks
  /\ IdleExec
  /\ IdleMsg
  /\ IdleAuth
  /\ tasks = <<>>
  /\ depends = <<>>
  /\ \E n \in 0 .. MaxEntries : dinput \in ParsedArrays(n)
  /\ dpc = "parsed"
  /\ dout = NoOutput

\* decompose validates the parsed array and returns it or throws
Decompose ==
  /\ dpc = "parsed"
  /\ dout' = decomposeParsed(dinput)
  /\ dpc' = IF dout'.ok THEN "returned" ELSE "threw"
  /\ UNCHANGED <<tasks, depends, dinput>>
  /\ UNCHANGED nonDecomp

\* decomposeAndQueue after "await decompose": createSwarm with one task per
\* subtask (reached only when decompose returned)
QueueSubtasks ==
  /\ dpc = "returned"
  /\ tasks' = createSwarm(Len(dout.subtasks))
  /\ depends' = [i \in 0 .. (Len(dout.subtasks) - 1) |->
                   queuedDeps(dout.subtasks, i)]
  /\ dpc' = "queued"
  /\ UNCHANGED <<dinput, dout>>
  /\ UNCHANGED nonDecomp

NextDecomp ==
  \/ Decompose
  \/ QueueSubtasks

SpecDecomp == InitDecomp /\ [][NextDecomp]_vars

\* ---------------------------------------------------------------------------
\* SpecBus: postMessage with any arguments, readMessages, readDirect,
\* getContext and cleanExpired on one channel, over two UTC days. Every call
\* runs to completion.
\* ---------------------------------------------------------------------------
MaxBus == 2

\* the last tick of the second day
LastTick == 2 * TicksPerDay - 1

\* the agent that reads
Reader == "agent-a"

\* the keys and values of the context payloads
Keys == {"db_url", "api_key"}

Values == {"v1", "v2"}

\* JSON.stringify(payload) of an object {key, value} and of null
stringify(p) ==
  IF p.t = "object"
  THEN Str("{\"key\":\"" \o p.key \o "\",\"value\":\"" \o p.value \o "\"}")
  ELSE IF p.t = "null" THEN Str("null")
  ELSE IF p.t = "string" THEN Str("\"" \o p.value \o "\"")
  ELSE JsUndefined

\* typeof payload === 'string' ? payload : JSON.stringify(payload)
payloadStr(p) == IF p.t = "string" THEN p ELSE stringify(p)

\* the values JSON.parse can give for the payloads of the model
JsonValues == {JsNull} \cup {Obj(k, v) : k \in Keys, v \in Values}

\* JSON.parse(text) throws a SyntaxError
parseThrows(text) == \A o \in JsonValues : stringify(o) # text

\* JSON.parse(text)
parse(text) == CHOOSE o \in JsonValues : stringify(o) = text

\* ttlMinutes ? new Date(Date.now() + ttlMinutes * 60_000).toISOString() : null
expiresAtOf(now, ttlMinutes) ==
  IF ttlMinutes = NoTtl THEN NoExpiry ELSE expiresAt(now, ttlMinutes)

\* function postMessage({ ..., type = 'data', ... })
typeOf(a) == IF a.type = Undefined THEN "data" ELSE a.type

\* recipient || null
recipientOf(a) == IF a.recipient \in {Undefined, ""} THEN Null ELSE a.recipient

\* .run(...) of better-sqlite3 binds numbers, strings, bigints, buffers and
\* null, and throws a TypeError for any other value
BindThrows(a) ==
  \/ a.channel = Undefined
  \/ a.sender = Undefined
  \/ payloadStr(a.payload).t = "undefined"

\* channel, sender, type TEXT NOT NULL
NotNullFails(a) == a.channel = Null \/ a.sender = Null \/ typeOf(a) = Null

\* the row postMessage inserts; ttlMinutes is no column, it keeps the
\* argument of the call for the row
messageRow(rows, id, now, a) ==
  [rowid |-> newRowid(rows), id |-> id, channel |-> a.channel,
   sender |-> a.sender, recipient |-> recipientOf(a), type |-> typeOf(a),
   payload |-> payloadStr(a.payload).value, created_at |-> now,
   expires_at |-> expiresAtOf(now, a.ttlMinutes),
   ttlMinutes |-> a.ttlMinutes]

\* postMessage(a): what it throws (Null: it returns the id)
postThrows(a) ==
  IF BindThrows(a) THEN "TypeError"
  ELSE IF NotNullFails(a) THEN "SqliteError"
  ELSE Null

\* ORDER BY created_at DESC over rows of equal created_at: the rows come in
\* the order the query plan produces them, ascending rowid when the rows are
\* fed to the sorter from the channel index, descending when the created_at
\* index is walked backwards
TieOrders == {"rowid asc", "rowid desc"}

\* ORDER BY created_at DESC LIMIT ?: the first limit rows
RECURSIVE OrderByCreatedAtDesc(_, _, _)
OrderByCreatedAtDesc(S, tie, limit) ==
  IF S = {} \/ limit = 0 THEN <<>>
  ELSE LET m == CHOOSE x \in S : \A y \in S :
                  \/ x.created_at > y.created_at
                  \/ /\ x.created_at = y.created_at
                     /\ IF tie = "rowid asc" THEN x.rowid <= y.rowid
                                             ELSE x.rowid >= y.rowid
       IN <<m>> \o OrderByCreatedAtDesc(S \ {m}, tie, limit - 1)

\* LIMIT 20 of the second query of getContext
ContextScanLimit == 20

\* WHERE channel = ? AND type = 'context'
\* AND (expires_at IS NULL OR expires_at > datetime('now'))
\* ORDER BY created_at DESC LIMIT ?
contextQuery(rows, channel, now, tie, limit) ==
  OrderByCreatedAtDesc(
    {m \in rows :
       /\ m.channel = channel
       /\ m.type = "context"
       /\ m.expires_at = NoExpiry \/ ExpiresAfterNow(m.expires_at, now)},
    tie, limit)

\* what JSON.parse(m.payload) gives, "SyntaxError" when it throws
parsed(m) ==
  IF parseThrows(Str(m.payload))
  THEN [t |-> "SyntaxError", key |-> Null, value |-> Null]
  ELSE parse(Str(m.payload))

\* for (const m of msgs) { const p = JSON.parse(m.payload);
\*                         if (p.key === key) return p.value; } return null;
\* inside try { } catch { return null; } (p.key of null throws as well): the
\* row whose value is returned, as a sequence of at most one row
RECURSIVE scanContext(_, _, _)
scanContext(q, k, key) ==
  IF k > Len(q) THEN <<>>
  ELSE LET p == parsed(q[k]) IN
         IF p.t # "object" THEN <<>>
         ELSE IF p.key = key THEN <<q[k]>>
         ELSE scanContext(q, k + 1, key)

\* getContext(channel, key): the row whose parsed.value it returns (none:
\* it returns null)
getContext(rows, channel, key, now, tie) ==
  LET msg == contextQuery(rows, channel, now, tie, 1) IN
    IF msg = <<>> THEN <<>>
    ELSE LET first == parsed(msg[1]) IN
           IF first.t # "object" THEN <<>>
           ELSE IF first.key = key THEN msg
           ELSE scanContext(
                  contextQuery(rows, channel, now, tie, ContextScanLimit),
                  1, key)

\* the calls that pass every check of the specification: a broadcast, an
\* addressed message and a shared context, with and without ttlMinutes
BusTtls == {NoTtl, 0, 1}

ValidCalls ==
  {[channel |-> SwarmChannel, sender |-> "agent-b", recipient |-> k[1],
    type |-> k[2], payload |-> k[3], ttlMinutes |-> ttl] :
     k \in {<<Undefined, Undefined, Str("should expire")>>,
            <<Reader, "data", Str("private data")>>,
            <<Undefined, "context", Obj("db_url", "v1")>>},
     ttl \in BusTtls}

\* a call without flaw, and the calls that differ from it in one argument
PlainCall == [channel |-> SwarmChannel, sender |-> "agent-b",
              recipient |-> Undefined, type |-> Undefined,
              payload |-> Str("z"), ttlMinutes |-> NoTtl]

InvalidCalls ==
  {NoArgs,
   [PlainCall EXCEPT !.channel = Undefined],
   [PlainCall EXCEPT !.sender = Undefined],
   [PlainCall EXCEPT !.payload = JsNull],
   [PlainCall EXCEPT !.payload = JsUndefined],
   [PlainCall EXCEPT !.type = "bogus"]}

\* what the bus specification leaves alone
nonBus == <<qvars, evars, avars, dvars, hvars, cvars, lastRead, svars,
            rvars, lvars, cleaned, ovars>>

InitBus ==
  /\ IdleWorkers
  /\ IdleHooks
  /\ IdleExec
  /\ IdleAuth
  /\ IdleDecomp
  /\ IdleMsg
  /\ IdleExtra
  /\ tasks = <<>>
  /\ depends = <<>>

\* postMessage(a)
PostMessage(a) ==
  /\ nextMsg <= MaxBus
  /\ IF postThrows(a) # Null
     THEN /\ posted' = [op |-> "postMessage", call |-> a,
                         threw |-> postThrows(a), stored |-> 0]
          /\ UNCHANGED <<msgs, nextMsg>>
     ELSE /\ msgs' = msgs \cup {messageRow(msgs, nextMsg, clock, a)}
          /\ nextMsg' = nextMsg + 1
          /\ posted' = [op |-> "postMessage", call |-> a, threw |-> Null,
                         stored |-> nextMsg]
  /\ UNCHANGED <<cursors, clock, ppc, pnow, prcp, pexp, delivered, seen>>
  /\ UNCHANGED nonBus

\* readMessages(channel, {agentId}): the cursor moves when a message is
\* returned
BusReadMessages(channel, a) ==
  /\ LET messages == readQuery({m \in msgs : m.channel = channel}, a,
                               cursors[a], clock, DefaultLimit) IN
       /\ cursors' = IF Len(messages) > 0
                     THEN [cursors EXCEPT ![a] = messages[Len(messages)].id]
                     ELSE cursors
       /\ seen' = [op |-> "readMessages", key |-> Null, at |-> clock,
                   rows |-> messages, call |-> 1 - seen.call]
  /\ UNCHANGED <<msgs, nextMsg, clock, ppc, pnow, prcp, pexp, delivered,
                 posted>>
  /\ UNCHANGED nonBus

\* readDirect(agentId)
BusReadDirect(a) ==
  /\ seen' = [op |-> "readDirect", key |-> Null, at |-> clock,
              rows |-> directQuery(msgs, a, Null, clock, DefaultLimit),
              call |-> 1 - seen.call]
  /\ UNCHANGED <<msgs, nextMsg, cursors, clock, ppc, pnow, prcp, pexp,
                 delivered, posted>>
  /\ UNCHANGED nonBus

\* getContext(channel, key)
GetContext(channel, key, tie) ==
  /\ seen' = [op |-> "getContext", key |-> key, at |-> clock,
              rows |-> getContext(msgs, channel, key, clock, tie),
              call |-> 1 - seen.call]
  /\ UNCHANGED <<msgs, nextMsg, cursors, clock, ppc, pnow, prcp, pexp,
                 delivered, posted>>
  /\ UNCHANGED nonBus

\* cleanExpired()
BusCleanExpired ==
  /\ msgs' = {m \in msgs : ~ (/\ m.expires_at # NoExpiry
                               /\ ExpiresBeforeNow(m.expires_at, clock))}
  /\ seen' = [op |-> "cleanExpired", key |-> Null, at |-> clock,
              rows |-> <<>>,
              call |-> 1 - seen.call]
  /\ UNCHANGED <<nextMsg, cursors, clock, ppc, pnow, prcp, pexp, delivered,
                 posted>>
  /\ UNCHANGED nonBus

\* a minute passes
TickBus ==
  /\ clock < LastTick
  /\ clock' = clock + 1
  /\ UNCHANGED <<msgs, nextMsg, cursors, ppc, pnow, prcp, pexp, delivered,
                 posted, seen>>
  /\ UNCHANGED nonBus

NextBus ==
  \/ \E a \in ValidCalls \cup InvalidCalls : PostMessage(a)
  \/ BusReadMessages(SwarmChannel, Reader)
  \/ BusReadDirect(Reader)
  \/ \E tie \in TieOrders : GetContext(SwarmChannel, "db_url", tie)
  \/ BusCleanExpired
  \/ TickBus

SpecBus == InitBus /\ [][NextBus]_vars

\* ---------------------------------------------------------------------------
\* SpecContext: shareContext and getContext on one channel. The key asked
\* for is shared within the first MaxOwn calls, the calls after them share
\* another key; calls made within the same millisecond get the same
\* created_at.
\* ---------------------------------------------------------------------------
MaxOwn == 2

\* enough calls to put more than ContextScanLimit rows after a row
MaxContext == MaxOwn + ContextScanLimit

\* the clock, in milliseconds
MaxContextClock == 1

\* ttlMinutes: 120 of shareContext, in ticks: less than a day
ShareContextTtl == TicksPerDay \div 2

\* shareContext(channel, sender, key, value): the arguments it passes to
\* postMessage
shareContext(channel, sender, key, value) ==
  [channel |-> channel, sender |-> sender, recipient |-> Undefined,
   type |-> "context", payload |-> Obj(key, value),
   ttlMinutes |-> ShareContextTtl]

InitContext ==
  /\ IdleWorkers
  /\ IdleHooks
  /\ IdleExec
  /\ IdleAuth
  /\ IdleDecomp
  /\ IdleMsg
  /\ IdleExtra
  /\ tasks = <<>>
  /\ depends = <<>>

\* shareContext(SwarmChannel, "agent-b", key, value)
ShareContext(key, value) ==
  /\ nextMsg <= MaxContext
  /\ msgs' = msgs \cup {messageRow(msgs, nextMsg, clock,
                                   shareContext(SwarmChannel, "agent-b",
                                                key, value))}
  /\ nextMsg' = nextMsg + 1
  /\ UNCHANGED <<cursors, clock, ppc, pnow, prcp, pexp, delivered, posted,
                 seen>>
  /\ UNCHANGED nonBus

\* a millisecond passes (the calls after the first ones are made in one
\* burst, within a millisecond)
TickContext ==
  /\ clock < MaxContextClock
  /\ nextMsg <= MaxOwn + 1
  /\ clock' = clock + 1
  /\ UNCHANGED <<msgs, nextMsg, cursors, ppc, pnow, prcp, pexp, delivered,
                 posted, seen>>
  /\ UNCHANGED nonBus

NextContext ==
  \/ \E v \in Values : nextMsg <= MaxOwn /\ ShareContext("db_url", v)
  \/ ShareContext("api_key", "v1")
  \/ \E key \in Keys : \E tie \in TieOrders :
       GetContext(SwarmChannel, key, tie)
  \/ TickContext

SpecContext == InitContext /\ [][NextContext]_vars

\* ---------------------------------------------------------------------------
\* SpecAdapter: concurrent runOpenAIChatPrompt / runAnthropicAgentPrompt
\* calls in one process: token, smoke test, completion request, logLlmCall.
\* Synchronous code runs to its next await; a response, the finally callback
\* of the smoke test and the continuations they release are taken up in
\* later steps.
\* ---------------------------------------------------------------------------
MaxResets == 1

\* the adapters
Providers == {"openai", "anthropic"}

\* how a completion request ends
RequestOutcomes == {"ok", "HTTP error", "timeout"}

\* if (!_smokeTestRunning) taken as if the marker were never set
SmokeJoinsNever(marker) == FALSE

\* if (!_smokeTestRunning) ... else the call awaits the promise in the marker
SmokeJoins(marker) == marker # 0

\* the smoke test a call would start
NextSmokeTest == Min({k \in SmokeTests : sstatus[k] = "none"})

\* what the adapter specification leaves alone
nonAdapter == <<qvars, evars, mvars, dvars, hvars, cvars, lastRead, bvars,
                rvars, lvars, cleaned, optSynthesize, tvars, authAccess,
                authExpired,
                authRefresh, refreshRunning,
                pstatus, pvalue, psent, cpc, cjoin, cgot>>

\* the record handed to logLlmCall
LogRecord(ok, error) == [ok |-> ok, error |-> error]

InitAdapter ==
  /\ IdleWorkers
  /\ IdleHooks
  /\ IdleExec
  /\ IdleMsg
  /\ IdleDecomp
  /\ IdleAuth
  /\ IdleBus
  /\ IdleResolve
  /\ IdleRoute
  /\ cleaned = NoClean
  /\ IdleLater
  /\ tasks = <<>>
  /\ depends = <<>>
  /\ provider \in Providers
  /\ skipSmoke \in BOOLEAN
  /\ smokeRunning = 0
  /\ sstatus = [k \in SmokeTests |-> "none"]
  /\ ssent = [k \in SmokeTests |-> 0]
  /\ apc = [c \in Callers |-> "idle"]
  /\ ajoin = [c \in Callers |-> 0]
  /\ askip = [c \in Callers |-> FALSE]
  /\ asent = [c \in Callers |-> 0]
  /\ alog = [c \in Callers |-> <<>>]
  /\ aerr = [c \in Callers |-> Null]
  /\ resets = 0

\* the adapter from the token to its next await: with _smokeTestPassed the
\* completion request is sent; otherwise the call awaits _smokeTestRunning,
\* after starting the smoke test when there is none (runSmokeTest up to its
\* fetch, or up to its return with SKIP_SMOKE_TEST=1)
afterToken(c, token) ==
  IF smokeTestPassed
  THEN /\ apc' = [apc EXCEPT ![c] = "request"]
       /\ asent' = [asent EXCEPT ![c] = @ + 1]
       /\ UNCHANGED <<smokeTestPassed, smokeRunning, sstatus, ssent, ajoin,
                      stoken>>
  ELSE IF SmokeJoins(smokeRunning)
  THEN /\ apc' = [apc EXCEPT ![c] = "smoke"]
       /\ ajoin' = [ajoin EXCEPT ![c] = smokeRunning]
       /\ UNCHANGED <<smokeTestPassed, smokeRunning, sstatus, ssent, asent,
                      stoken>>
  ELSE LET k == NextSmokeTest IN
         /\ smokeRunning' = k
         /\ stoken' = [stoken EXCEPT ![k] = token]
         /\ smokeTestPassed' = skipSmoke
         /\ sstatus' = [sstatus EXCEPT ![k] =
                          IF skipSmoke THEN "skipped" ELSE "fetching"]
         /\ ssent' = [ssent EXCEPT ![k] = IF skipSmoke THEN 0 ELSE 1]
         /\ apc' = [apc EXCEPT ![c] = "smoke"]
         /\ ajoin' = [ajoin EXCEPT ![c] = k]
         /\ UNCHANGED asent

\* the call throws before its try block: nothing is logged
throwsEarly(c, msg) ==
  /\ apc' = [apc EXCEPT ![c] = "threw"]
  /\ aerr' = [aerr EXCEPT ![c] = msg]

\* runOpenAIChatPrompt({skipLog}) up to "await resolveOpenAIAuth()", which
\* returns codex.access as it is in auth.json or, with the token expired,
\* awaits refreshOpenAIToken();
\* runAnthropicAgentPrompt({skipLog}) up to its first await:
\* resolveOAuthToken() returns or throws (ANTHROPIC_API_KEY conflict)
StartCall(c, skipLog, tokenOk, expired) ==
  /\ apc[c] = "idle"
  /\ askip' = [askip EXCEPT ![c] = skipLog]
  /\ IF provider = "openai"
     THEN /\ tokenOk
          /\ expired => resets < MaxResets
          /\ apc' = [apc EXCEPT ![c] = "auth"]
          /\ atoken' = [atoken EXCEPT ![c] = IF expired THEN NoToken ELSE resets]
          /\ UNCHANGED <<smokeTestPassed, smokeRunning, sstatus, ssent, ajoin,
                         asent, aerr, stoken>>
     ELSE IF tokenOk
     THEN /\ ~expired
          /\ afterToken(c, 0)
          /\ atoken' = [atoken EXCEPT ![c] = 0]
          /\ UNCHANGED aerr
     ELSE /\ ~expired
          /\ throwsEarly(c, "ANTHROPIC_API_KEY conflicts with OAuth mode")
          /\ UNCHANGED <<smokeTestPassed, smokeRunning, sstatus, ssent, ajoin,
                         asent, kvars>>
  /\ UNCHANGED <<provider, skipSmoke, alog, resets>>
  /\ UNCHANGED nonAdapter

\* "await resolveOpenAIAuth()" settles: with a token the call goes on to the
\* smoke test, otherwise it throws (no credentials, refresh failed)
AuthSettles(c, tokenOk) ==
  /\ apc[c] = "auth"
  /\ IF tokenOk
     THEN /\ atoken[c] # NoToken
          /\ afterToken(c, atoken[c])
          /\ UNCHANGED <<aerr, atoken>>
     ELSE /\ throwsEarly(c, "Token refresh failed HTTP")
          /\ UNCHANGED <<smokeTestPassed, smokeRunning, sstatus, ssent, ajoin,
                         asent, kvars>>
  /\ UNCHANGED <<provider, skipSmoke, askip, alog, resets>>
  /\ UNCHANGED nonAdapter

\* refreshOpenAIToken has rewritten auth.json: _smokeTestPassed = false;
\* the calls that await the refresh are given the new token
RefreshResets ==
  /\ provider = "openai"
  /\ resets < MaxResets
  /\ resets' = resets + 1
  /\ smokeTestPassed' = FALSE
  /\ atoken' = [c \in Callers |->
                  IF apc[c] = "auth" /\ atoken[c] = NoToken
                  THEN resets + 1 ELSE atoken[c]]
  /\ UNCHANGED stoken
  /\ UNCHANGED <<provider, skipSmoke, smokeRunning, sstatus, ssent, apc,
                 ajoin, askip, asent, alog, aerr>>
  /\ UNCHANGED nonAdapter

\* the smoke-test request of smoke test k ends: AUTH_OK (ok), or an HTTP
\* error, another text or the abort after SMOKE_TIMEOUT_MS
SmokeResponds(k, ok) ==
  /\ sstatus[k] = "fetching"
  /\ sstatus' = [sstatus EXCEPT ![k] = IF ok THEN "passed" ELSE "failed"]
  /\ smokeTestPassed' = IF ok THEN TRUE ELSE smokeTestPassed
  /\ UNCHANGED <<provider, skipSmoke, smokeRunning, ssent, apc, ajoin, askip,
                 asent, alog, aerr, resets>>
  /\ UNCHANGED kvars
  /\ UNCHANGED nonAdapter

\* .finally(() => { _smokeTestRunning = null; }) of smoke test k
SmokeFinally(k) ==
  /\ smokeRunning = k
  /\ sstatus[k] \in {"passed", "failed", "skipped"}
  /\ smokeRunning' = 0
  /\ UNCHANGED <<provider, skipSmoke, smokeTestPassed, sstatus, ssent, apc,
                 ajoin, askip, asent, alog, aerr, resets>>
  /\ UNCHANGED kvars
  /\ UNCHANGED nonAdapter

\* "await _smokeTestRunning" resumes in call c, after the finally callback:
\* the call throws the smoke test's error or sends its completion request
ResumeAfterSmoke(c) ==
  /\ apc[c] = "smoke"
  /\ sstatus[ajoin[c]] \in {"passed", "failed", "skipped"}
  /\ smokeRunning # ajoin[c]
  /\ IF sstatus[ajoin[c]] = "failed"
     THEN throwsEarly(c, "smoke test failed") /\ UNCHANGED asent
     ELSE /\ apc' = [apc EXCEPT ![c] = "request"]
          /\ asent' = [asent EXCEPT ![c] = @ + 1]
          /\ UNCHANGED aerr
  /\ UNCHANGED <<provider, skipSmoke, smokeTestPassed, smokeRunning, sstatus,
                 ssent, ajoin, askip, alog, resets>>
  /\ UNCHANGED kvars
  /\ UNCHANGED nonAdapter

\* the completion request of call c ends; catch and finally: unless skipLog,
\* one record goes to logLlmCall; the call returns or rethrows
RequestEnds(c, outcome) ==
  /\ apc[c] = "request"
  /\ apc' = [apc EXCEPT ![c] = IF outcome = "ok" THEN "returned" ELSE "threw"]
  /\ aerr' = [aerr EXCEPT ![c] = IF outcome = "ok" THEN Null ELSE outcome]
  /\ alog' = [alog EXCEPT ![c] =
                IF askip[c] THEN @
                ELSE Append(@, LogRecord(outcome = "ok",
                                         IF outcome = "ok" THEN Null
                                         ELSE outcome))]
  /\ UNCHANGED <<provider, skipSmoke, smokeTestPassed, smokeRunning, sstatus,
                 ssent, ajoin, askip, asent, resets>>
  /\ UNCHANGED kvars
  /\ UNCHANGED nonAdapter

NextAdapter ==
  \/ \E c \in Callers : \E skipLog, tokenOk, expired \in BOOLEAN :
       StartCall(c, skipLog, tokenOk, expired)
  \/ \E c \in Callers : \E tokenOk \in BOOLEAN : AuthSettles(c, tokenOk)
  \/ RefreshResets
  \/ \E k \in SmokeTests : \E ok \in BOOLEAN : SmokeResponds(k, ok)
  \/ \E k \in SmokeTests : SmokeFinally(k)
  \/ \E c \in Callers : ResumeAfterSmoke(c)
  \/ \E c \in Callers : \E outcome \in RequestOutcomes : RequestEnds(c, outcome)

SpecAdapter == InitAdapter /\ [][NextAdapter]_vars

\* ---------------------------------------------------------------------------
\* SpecResolve: resolveModel (smart-router.js) over the registry
\* (agent-registry.js) and the call log llm_calls, which logLlmCall fills.
\* ---------------------------------------------------------------------------
MaxCallsPerModel == 3

\* HAVING call_count >= 3
MinCalls == 3

\* AGENT_REGISTRY: tier, capabilities, costTier, defaultTimeoutMs (seconds)
AGENT_REGISTRY ==
  [m \in {"claude-opus-4-5", "claude-sonnet-4-5", "claude-haiku-4-5",
          "gpt-5.3-codex", "gpt-4o"} |->
     CASE m = "claude-opus-4-5" ->
            [tier |-> "best", costTier |-> 3, defaultTimeoutMs |-> 120,
             capabilities |-> {"coding", "reasoning", "long-context",
                               "creative", "review"}]
       [] m = "claude-sonnet-4-5" ->
            [tier |-> "balanced", costTier |-> 2, defaultTimeoutMs |-> 60,
             capabilities |-> {"coding", "reasoning", "long-context",
                               "review"}]
       [] m = "claude-haiku-4-5" ->
            [tier |-> "cheap", costTier |-> 1, defaultTimeoutMs |-> 30,
             capabilities |-> {"classification", "extraction",
                               "simple-reasoning", "review"}]
       [] m = "gpt-5.3-codex" ->
            [tier |-> "balanced", costTier |-> 2, defaultTimeoutMs |-> 60,
             capabilities |-> {"coding", "reasoning"}]
       [] m = "gpt-4o" ->
            [tier |-> "balanced", costTier |-> 2, defaultTimeoutMs |-> 60,
             capabilities |-> {"reasoning", "multimodal"}]]

\* TIER_ORDER
TIER_ORDER == [t \in {"cheap", "balanced", "best"} |->
                 IF t = "cheap" THEN 0 ELSE IF t = "balanced" THEN 1 ELSE 2]

\* Object.keys(AGENT_REGISTRY): the keys in insertion order
getAllModels == <<"claude-opus-4-5", "claude-sonnet-4-5", "claude-haiku-4-5",
                  "gpt-5.3-codex", "gpt-4o">>

\* getModelsWithCapability(capability)
getModelsWithCapability(capability) ==
  LET has(m) == capability \in AGENT_REGISTRY[m].capabilities
  IN SelectSeq(getAllModels, has)

\* the loop of getCheapestModel / getBestModel / getFastestModel and of the
\* stats-based strategies: best starts as null (or as the first element) and
\* is replaced by each later element that is strictly better (better: the
\* pairs <<a, b>> with a better than b)
firstBest(pool, better) ==
  LET best[k \in 0 .. Len(pool)] ==
        IF k = 0 THEN Null
        ELSE IF best[k - 1] = Null \/ <<pool[k], best[k - 1]>> \in better
        THEN pool[k] ELSE best[k - 1]
  IN best[Len(pool)]

\* the first model of the candidate list, whatever its cost
getFirstModel(candidates) ==
  IF candidates = <<>> THEN Null ELSE Head(candidates)

\* getCheapestModel(candidates): lowest costTier
getCheapestModel(candidates) ==
  LET cheaper == {p \in (DOMAIN AGENT_REGISTRY) \X (DOMAIN AGENT_REGISTRY) :
                    AGENT_REGISTRY[p[1]].costTier
                      < AGENT_REGISTRY[p[2]].costTier}
  IN firstBest(candidates, cheaper)

\* getBestModel(candidates): highest tier
getBestModel(candidates) ==
  LET higher == {p \in (DOMAIN AGENT_REGISTRY) \X (DOMAIN AGENT_REGISTRY) :
                   TIER_ORDER[AGENT_REGISTRY[p[1]].tier]
                     > TIER_ORDER[AGENT_REGISTRY[p[2]].tier]}
  IN firstBest(candidates, higher)

\* STRATEGY_FALLBACKS
STRATEGY_FALLBACKS ==
  [s \in {"cheapest", "fastest", "best", "balanced"} |->
     IF s = "best" THEN "claude-opus-4-5"
     ELSE IF s = "balanced" THEN "claude-sonnet-4-5"
     ELSE "claude-haiku-4-5"]

\* x || fallback taken as if the fallback were not there
OrNothing(x, fallback) == x

\* x || fallback
OrElse(x, fallback) == IF x \in {Null, Undefined, ""} THEN fallback ELSE x

\* getModelStats(24): GROUP BY model HAVING call_count >= 3, and [] when
\* the store cannot be read (catch): model -> its row
getModelStats(log, readable) ==
  IF ~ readable THEN <<>>
  ELSE LET grouped == {m \in LoggedModels : log[m].call_count >= MinCalls}
       IN [m \in grouped |-> log[m]]

\* s && s.success_rate >= tenths / 10
reliableAt(stats, m, tenths) ==
  /\ m \in DOMAIN stats
  /\ 10 * stats[m].ok_count >= tenths * stats[m].call_count

\* a.avg_cost < b.avg_cost
cheaperOnAverage(a, b) ==
  a.sum_cost * b.call_count < b.sum_cost * a.call_count

\* a.avg_latency_ms < b.avg_latency_ms
fasterOnAverage(a, b) ==
  a.sum_ms * b.call_count < b.sum_ms * a.call_count

\* (s.avg_cost || 0.001) * (s.avg_latency_ms || 1), times 1000 * call_count^2
costLatency(s) ==
  (IF s.sum_cost = 0 THEN s.call_count ELSE 1000 * s.sum_cost)
    * (IF s.sum_ms = 0 THEN s.call_count ELSE s.sum_ms)

\* 1 / (cost * latency) of a is greater than that of b
betterScore(a, b) ==
  costLatency(a) * b.call_count * b.call_count
    < costLatency(b) * a.call_count * a.call_count

\* candidates.includes(m)
includes(arr, m) == \E k \in 1 .. Len(arr) : arr[k] = m

\* resolveModel(strategy, {capability, model})
resolveModel(strategy, capability, model, log, readable) ==
  IF strategy = "specific"
       \/ (strategy \in {Undefined, ""} /\ model \notin {Undefined, ""})
  THEN OrElse(model, "claude-sonnet-4-5")
  ELSE
    LET pool == IF capability \in {Undefined, ""} THEN getAllModels
                ELSE getModelsWithCapability(capability)
        candidates == IF Len(pool) = 0 THEN getAllModels ELSE pool
        stats == getModelStats(log, readable)
        reliable(m) == reliableAt(stats, m, 8)
        highlyReliable(m) == reliableAt(stats, m, 9)
        reliableCandidates == SelectSeq(candidates, reliable)
        highReliable == SelectSeq(candidates, highlyReliable)
        lowerCost == {p \in (DOMAIN stats) \X (DOMAIN stats) :
                        cheaperOnAverage(stats[p[1]], stats[p[2]])}
        lowerLatency == {p \in (DOMAIN stats) \X (DOMAIN stats) :
                           fasterOnAverage(stats[p[1]], stats[p[2]])}
        higherScore == {p \in (DOMAIN stats) \X (DOMAIN stats) :
                          betterScore(stats[p[1]], stats[p[2]])}
    IN CASE strategy = "cheapest" ->
              IF Len(reliableCandidates) > 0
              THEN firstBest(reliableCandidates, lowerCost)
              ELSE OrElse(getCheapestModel(candidates),
                          STRATEGY_FALLBACKS["cheapest"])
         [] strategy = "fastest" ->
              IF Len(reliableCandidates) > 0
              THEN firstBest(reliableCandidates, lowerLatency)
              ELSE OrElse(getCheapestModel(candidates),
                          STRATEGY_FALLBACKS["fastest"])
         [] strategy = "best" ->
              OrElse(getBestModel(candidates), STRATEGY_FALLBACKS["best"])
         [] strategy = "balanced" ->
              IF Len(highReliable) > 0
              THEN firstBest(highReliable, higherScore)
              ELSE IF includes(candidates, "claude-sonnet-4-5")
              THEN "claude-sonnet-4-5"
              ELSE STRATEGY_FALLBACKS["balanced"]
         [] OTHER -> OrElse(model, STRATEGY_FALLBACKS["balanced"])

\* the arguments resolveModel is called with
Strategies == {"cheapest", "fastest", "best", "balanced", "specific",
               "smartest", Undefined}

Capabilities == {Undefined, "multimodal", "review", "vision"}

ModelArgs == {Undefined, "my-model"}

\* what the resolveModel specification leaves alone
nonResolve == <<qvars, evars, mvars, avars, dvars, hvars, cvars, lastRead,
                bvars, svars, lvars, cleaned, ovars>>

InitResolve ==
  /\ IdleWorkers
  /\ IdleHooks
  /\ IdleExec
  /\ IdleMsg
  /\ IdleDecomp
  /\ IdleAuth
  /\ IdleExtra
  /\ tasks = <<>>
  /\ depends = <<>>

\* logLlmCall({model, ok, duration_ms, cost_estimate}): the INSERT
LogLlmCall(m, r) ==
  /\ storeReadable
  /\ llmCalls[m].call_count < MaxCallsPerModel
  /\ llmCalls' = [llmCalls EXCEPT
                    ![m] = [call_count |-> @.call_count + 1,
                            ok_count |-> @.ok_count + (IF r.ok THEN 1 ELSE 0),
                            sum_ms |-> @.sum_ms + r.ms,
                            sum_cost |-> @.sum_cost + r.cost]]
  /\ UNCHANGED <<storeReadable, resolved>>
  /\ UNCHANGED nonResolve

\* llm_calls.db becomes unreadable, or readable again
StoreToggles ==
  /\ storeReadable' = ~ storeReadable
  /\ UNCHANGED <<llmCalls, resolved>>
  /\ UNCHANGED nonResolve

\* resolveModel(strategy, {capability, model})
ResolveModel(strategy, capability, model) ==
  /\ resolved' = [strategy |-> strategy, capability |-> capability,
                  model |-> model,
                  result |-> resolveModel(strategy, capability, model,
                                          llmCalls, storeReadable)]
  /\ UNCHANGED <<llmCalls, storeReadable>>
  /\ UNCHANGED nonResolve

NextResolve ==
  \/ \E m \in LoggedModels : \E r \in RowKinds : LogLlmCall(m, r)
  \/ StoreToggles
  \/ \E strategy \in Strategies : \E capability \in Capabilities :
       ResolveModel(strategy, capability, Undefined)
  \/ \E strategy \in Strategies : \E model \in ModelArgs :
       ResolveModel(strategy, Undefined, model)

SpecResolve == InitResolve /\ [][NextResolve]_vars

\* ---------------------------------------------------------------------------
\* SpecRoute: runLlm and the model normalization of model-utils.js.
\* A model identifier is the sequence of its parts between slashes:
\* 'anthropic/claude-sonnet-4' is <<"anthropic", "claude-sonnet-4">>.
\* ---------------------------------------------------------------------------
\* MODEL_ALIASES of model-utils.js
MODEL_ALIASES ==
  [a \in {"opus-4", "sonnet-4", "haiku-4", "opus-3", "sonnet-3", "gpt-4o",
          "gpt-4", "gpt-3.5"} |->
     CASE a = "opus-4" -> "claude-opus-4-5"
       [] a = "sonnet-4" -> "claude-sonnet-4-5"
       [] a = "haiku-4" -> "claude-haiku-4-5"
       [] a = "opus-3" -> "claude-opus-4"
       [] a = "sonnet-3" -> "claude-sonnet-3-5"
       [] a = "gpt-4o" -> "gpt-4o"
       [] a = "gpt-4" -> "gpt-4-turbo"
       [] a = "gpt-3.5" -> "gpt-3.5-turbo"]

\* the canonical alias table: MODEL_ALIASES and codex
CanonicalAliases ==
  [a \in DOMAIN MODEL_ALIASES \cup {"codex"} |->
     IF a = "codex" THEN "gpt-5.3-codex" ELSE MODEL_ALIASES[a]]

\* the model names callers pass, after the provider prefix
Names == DOMAIN CanonicalAliases
           \cup {CanonicalAliases[a] : a \in DOMAIN CanonicalAliases}
           \cup {"claude-sonnet-4", "o1-mini", "o3", "llama-3",
                 "Claude-Sonnet-4-5", ""}

\* the provider prefixes callers write, without the slash
Prefixes == {"anthropic", "openai", "openai-codex", "Anthropic"}

\* the identifiers: a name, a prefixed name, a name with two prefixes
ModelIds ==
  {<<n>> : n \in Names}
    \cup {<<p, n>> : p \in Prefixes, n \in Names}
    \cup {<<"anthropic", "openai", n>> : n \in Names}

\* part.toLowerCase()
toLowerCase(part) ==
  CASE part = "Anthropic" -> "anthropic"
    [] part = "Claude-Sonnet-4-5" -> "claude-sonnet-4-5"
    [] OTHER -> part

\* lower.includes('claude') || includes('opus') || includes('sonnet') ||
\* includes('haiku'), for the parts that occur
includesFamily(lower) ==
  lower \in {"opus-4", "sonnet-4", "haiku-4", "opus-3", "sonnet-3",
             "claude-opus-4-5", "claude-sonnet-4-5", "claude-haiku-4-5",
             "claude-opus-4", "claude-sonnet-3-5", "claude-sonnet-4"}

\* lower.startsWith('gpt-') || startsWith('o1') || startsWith('o3')
startsLikeOpenAI(lower) ==
  lower \in {"gpt-4o", "gpt-4", "gpt-3.5", "gpt-4-turbo", "gpt-3.5-turbo",
             "gpt-5.3-codex", "o1-mini", "o3"}

\* the identifier is the empty string
isEmpty(model) == model = <<"">>

\* isAnthropicModel(model)
isAnthropicModel(model) ==
  /\ ~ isEmpty(model)
  /\ \E k \in 1 .. Len(model) : includesFamily(toLowerCase(model[k]))

\* model.replace(/^prefix\//i, '')
stripPrefix(model, prefix) ==
  IF Len(model) >= 2 /\ toLowerCase(model[1]) = prefix
  THEN Tail(model) ELSE model

\* if (ALIASES[normalized]) normalized = ALIASES[normalized]
resolveAlias(model, aliases) ==
  IF Len(model) = 1 /\ model[1] \in DOMAIN aliases
  THEN <<aliases[model[1]]>> ELSE model

\* normalizeAnthropicModel(model), model-utils.js as it is
normalizeAnthropicModel(model) ==
  IF isEmpty(model) THEN model
  ELSE resolveAlias(stripPrefix(stripPrefix(model, "anthropic"), "openai"),
                    MODEL_ALIASES)

\* normalizeModel(model), which llm-router.js imports: the three prefixes
\* are stripped, then the canonical table is looked up
normalizeModel(model) ==
  IF isEmpty(model) THEN model
  ELSE resolveAlias(
         stripPrefix(stripPrefix(stripPrefix(model, "anthropic"), "openai"),
                     "openai-codex"),
         CanonicalAliases)

\* detectModelProvider(model), given what the normalization it calls
\* makes of model
detectModelProvider(model, normalized) ==
  IF isEmpty(model) THEN Null
  ELSE IF isAnthropicModel(normalized) THEN "anthropic"
  ELSE IF startsLikeOpenAI(toLowerCase(normalized[1])) THEN "openai"
  ELSE Null

\* the two runLlm of the repository: one imports normalizeAnthropicModel and
\* has no OpenAI adapter, the other imports normalizeModel and has one
Routers == {"anthropic only", "llm-router.js"}

\* the normalization the loaded runLlm calls
normalizeBy(r, model) ==
  IF r = "llm-router.js" THEN normalizeModel(model)
  ELSE normalizeAnthropicModel(model)

\* the provider the loaded runLlm detects for a normalized identifier
providerBy(r, normalized) ==
  detectModelProvider(normalized, normalizeBy(r, normalized))

\* runLlm(prompt, {model}): what it normalizes to, detects and calls
runLlm(r, by, model) ==
  LET normalized == normalizeBy(r, model)
      detected == providerBy(r, normalized)
  IN [by |-> by, model |-> model, normalized |-> normalized,
      provider |-> detected,
      adapter |-> IF isAnthropicModel(normalized) THEN "anthropic"
                  ELSE IF detected = "openai" /\ r = "llm-router.js"
                  THEN "openai" ELSE Null,
      threw |-> IF isAnthropicModel(normalized) THEN Null
                ELSE IF detected = "openai"
                THEN (IF r = "llm-router.js" THEN Null
                      ELSE "OpenAI routing not yet implemented")
                ELSE "Unknown provider"]

\* opts without a model
NoModel == <<Undefined>>

\* { model = dflt, ... } = opts
modelOr(model, dflt) == IF model = NoModel THEN dflt ELSE model

\* what the router specification leaves alone
nonRoute == <<qvars, evars, mvars, avars, dvars, hvars, cvars, lastRead,
              bvars, svars, rvars, cleaned, ovars>>

InitRoute ==
  /\ IdleWorkers
  /\ IdleHooks
  /\ IdleExec
  /\ IdleMsg
  /\ IdleDecomp
  /\ IdleAuth
  /\ IdleBus
  /\ IdleAdapter
  /\ IdleResolve
  /\ cleaned = NoClean
  /\ IdleLater
  /\ tasks = <<>>
  /\ depends = <<>>
  /\ router \in Routers
  /\ routed = NoRoute

\* runLlm(prompt, {model})
RunLlm(model) ==
  /\ routed' = runLlm(router, "runLlm", modelOr(model, <<"claude-sonnet-4-5">>))
  /\ UNCHANGED router
  /\ UNCHANGED nonRoute

\* runClaude(prompt, opts)
RunClaude(model) ==
  /\ routed' = runLlm(router, "runClaude",
                      modelOr(model, <<"claude-sonnet-4-5">>))
  /\ UNCHANGED router
  /\ UNCHANGED nonRoute

\* runOpenAI(prompt, opts)
RunOpenAI(model) ==
  /\ router = "llm-router.js"
  /\ routed' = runLlm(router, "runOpenAI", modelOr(model, <<"gpt-5.3-codex">>))
  /\ UNCHANGED router
  /\ UNCHANGED nonRoute

NextRoute ==
  \/ \E model \in ModelIds \cup {NoModel} : RunLlm(model)
  \/ \E model \in ModelIds \cup {NoModel} : RunClaude(model)
  \/ \E model \in ModelIds \cup {NoModel} : RunOpenAI(model)

SpecRoute == InitRoute /\ [][NextRoute]_vars

\* ---------------------------------------------------------------------------
\* SpecClean: cleanCompletedSwarms on a table of two swarms (one of up to
\* MaxCleanTasks tasks, one of a single task), whose tasks workers claim, mark
\* running, complete, fail and reset in the order of the task life cycle,
\* while the clock runs over two UTC days.
\* ---------------------------------------------------------------------------
MaxCleanTasks == 2

\* the retentionDays passed to cleanCompletedSwarms
RetentionDays == {0, 1}

\* completed_at IS NULL
NotCompleted == 0 - 1

\* the rows createSwarm inserts for n tasks: pending, completed_at NULL
swarmRows(sid, n) ==
  {[id |-> TaskIdOf(sid, i), swarm_id |-> sid, seq |-> i,
    description |-> "work", status |-> "pending",
    completed_at |-> NotCompleted] :
     i \in 0 .. n - 1}

\* UPDATE swarm_tasks SET status = ?, completed_at = ? WHERE id = ?
\* (completed_at as it is when the statement does not set it)
updateById(rows, id, status, completed_at) ==
  {IF r.id = id
   THEN [r EXCEPT !.status = status, !.completed_at = completed_at]
   ELSE r : r \in rows}

\* the completed_at of row id
completedAtOf(rows, id) ==
  LET r == CHOOSE x \in rows : x.id = id IN r.completed_at

\* completed_at < datetime('now', '-N days'): completed_at is an ISO string
\* ('...T...Z'), the cutoff is 'YYYY-MM-DD HH:MM:SS'; compared as text, equal
\* dates are decided by 'T' > ' ', so the comparison is one of dates
BeforeCutoff(completed, cutoff) == Day(completed) < Day(cutoff)

\* datetime('now', `-${retentionDays} days`)
cutoffOf(now, retentionDays) == now - retentionDays * TicksPerDay

\* status IN ('done', 'failed')
terminal(r) == r.status \in {"done", "failed"}

\* the rows of a swarm
rowsOf(rows, sid) == {r \in rows : r.swarm_id = sid}

\* MAX(completed_at) of a swarm: NULL when no row has one
maxCompletedAt(rows, sid) ==
  LET stamps == {r.completed_at : r \in rowsOf(rows, sid)} \ {NotCompleted}
  IN IF stamps = {} THEN NotCompleted ELSE Max(stamps)

\* SELECT swarm_id FROM swarm_tasks GROUP BY swarm_id HAVING COUNT(*) =
\* SUM(CASE WHEN status IN ('done', 'failed') THEN 1 ELSE 0 END)
\* AND MAX(completed_at) < datetime('now', ?)
swarmsToClean(rows, now, retentionDays) ==
  {sid \in {r.swarm_id : r \in rows} :
     /\ \A r \in rowsOf(rows, sid) : terminal(r)
     /\ maxCompletedAt(rows, sid) # NotCompleted
     /\ BeforeCutoff(maxCompletedAt(rows, sid), cutoffOf(now, retentionDays))}

\* cleanCompletedSwarms(retentionDays): the rows left and result.changes
cleanCompletedSwarms(rows, now, retentionDays) ==
  LET deleted == {r \in rows :
                    r.swarm_id \in swarmsToClean(rows, now, retentionDays)}
  IN [rows |-> rows \ deleted, changes |-> Cardinality(deleted)]

\* what the clean-up specification leaves alone
nonClean == <<qvars, evars, avars, dvars, hvars, lastRead, created, listed,
              msgs, nextMsg, cursors, ppc, pnow, prcp, pexp, delivered,
              bvars, svars, rvars, lvars, ovars>>

InitClean ==
  /\ IdleExtra
  /\ IdleExec
  /\ IdleMsg
  /\ IdleAuth
  /\ IdleDecomp
  /\ IdleWorkers
  /\ tasks = <<>>
  /\ depends = <<>>
  /\ hooks = NoHooks
  /\ fired = <<>>
  /\ lastOp = NoOp
  /\ table = {}
  /\ created = NoCreate
  /\ listed = NoList
  /\ lastRead = NoRead

\* createSwarm({swarmId: sid, tasks}) with n tasks, the swarm not existing
CreateToClean(sid, n) ==
  /\ rowsOf(table, sid) = {}
  /\ table' = table \cup swarmRows(sid, n)
  /\ UNCHANGED <<clock, cleaned>>
  /\ UNCHANGED nonClean

\* markRunning(id), by the worker that claimed the task
MarkRunningRow(id) ==
  /\ \E r \in table : r.id = id /\ r.status = "claimed"
  /\ table' = updateById(table, id, "running", completedAtOf(table, id))
  /\ UNCHANGED <<clock, cleaned>>
  /\ UNCHANGED nonClean

\* completeTask(id, result), by the worker that holds the task
CompleteRow(id) ==
  /\ \E r \in table : r.id = id /\ r.status \in {"claimed", "running"}
  /\ table' = updateById(table, id, "done", clock)
  /\ UNCHANGED <<clock, cleaned>>
  /\ UNCHANGED nonClean

\* failTask(id, error), by the worker that holds the task
FailRow(id) ==
  /\ \E r \in table : r.id = id /\ r.status \in {"claimed", "running"}
  /\ table' = updateById(table, id, "failed", clock)
  /\ UNCHANGED <<clock, cleaned>>
  /\ UNCHANGED nonClean

\* resetTask(id), the recovery of a stale task
ResetRow(id) ==
  /\ \E r \in table : r.id = id /\ r.status \in {"claimed", "running"}
  /\ table' = updateById(table, id, "pending", completedAtOf(table, id))
  /\ UNCHANGED <<clock, cleaned>>
  /\ UNCHANGED nonClean

\* cleanCompletedSwarms(retentionDays)
CleanCompletedSwarms(retentionDays) ==
  /\ LET run == cleanCompletedSwarms(table, clock, retentionDays) IN
       /\ table' = run.rows
       /\ cleaned' = [retentionDays |-> retentionDays,
                      changes |-> run.changes, call |-> 1 - cleaned.call]
  /\ UNCHANGED clock
  /\ UNCHANGED nonClean

\* time passes
TickClean ==
  /\ clock < LastTick
  /\ clock' = clock + 1
  /\ UNCHANGED <<table, cleaned>>
  /\ UNCHANGED nonClean

\* the ids of the rows the swarms can have
CleanIds == {TaskIdOf(sid, i) : sid \in SwarmIds, i \in 0 .. MaxCleanTasks - 1}

\* the numbers of tasks a swarm is created with
CleanSizes(sid) == IF sid = "s1" THEN 1 .. MaxCleanTasks ELSE {1}

NextClean ==
  \/ \E sid \in SwarmIds : \E n \in CleanSizes(sid) : CreateToClean(sid, n)
  \/ \E sid \in SwarmIds : ClaimInSwarm(sid)
  \/ \E id \in CleanIds : MarkRunningRow(id)
  \/ \E id \in CleanIds : CompleteRow(id)
  \/ \E id \in CleanIds : FailRow(id)
  \/ \E id \in CleanIds : ResetRow(id)
  \/ \E retentionDays \in RetentionDays : CleanCompletedSwarms(retentionDays)
  \/ TickClean

SpecClean == InitClean /\ [][NextClean]_vars

\* ---------------------------------------------------------------------------
\* SpecStale: getStaleTasks and the periodic stale reset on the rows of one
\* swarm, whose tasks workers claim, mark running and complete while the clock
\* runs over two UTC days.  One tick is the 15 minutes of the periodic reset.
\* ---------------------------------------------------------------------------

\* the staleMinutes passed to getStaleTasks, in ticks
StaleMinutes == {0, 1}

\* the '-15 minutes' of the periodic reset, in ticks
CronStaleMinutes == 1

\* claimed_at IS NULL
NotClaimed == 0 - 1

\* the rows createSwarm inserts: pending, agent_id and claimed_at NULL
staleSwarm ==
  [i \in TaskIds |-> [status |-> "pending", agent_id |-> Null,
                      claimed_at |-> NotClaimed]]

\* claimed_at < datetime('now', '-N minutes'): claimed_at is the ISO string
\* claimTask wrote ('...T...Z'), the cutoff is 'YYYY-MM-DD HH:MM:SS'; compared
\* as text, equal dates are decided by 'T' > ' ', so the comparison is one of
\* dates; a NULL claimed_at compares as NULL
ClaimedBefore(claimed_at, now, minutes) ==
  /\ claimed_at # NotClaimed
  /\ Day(claimed_at) < Day(now - minutes)

\* the comparison of the two instants themselves
InstantBefore(claimed_at, now, minutes) ==
  /\ claimed_at # NotClaimed
  /\ claimed_at < now - minutes

\* SELECT * FROM swarm_tasks WHERE status IN ('claimed', 'running')
\* AND claimed_at < datetime('now', ?)      (the ids of the rows)
getStaleTasks(rows, now, staleMinutes) ==
  {i \in DOMAIN rows :
     /\ rows[i].status \in {"claimed", "running"}
     /\ ClaimedBefore(rows[i].claimed_at, now, staleMinutes)}

\* UPDATE swarm_tasks SET status='pending', agent_id=NULL, claimed_at=NULL
\* WHERE status IN ('claimed','running')
\* AND claimed_at < datetime('now','-15 minutes')
resetStale(rows, now) ==
  [i \in DOMAIN rows |->
     IF i \in getStaleTasks(rows, now, CronStaleMinutes)
     THEN [rows[i] EXCEPT !.status = "pending", !.agent_id = Null,
                          !.claimed_at = NotClaimed]
     ELSE rows[i]]

\* SELECT id ... WHERE status = 'pending' ORDER BY seq LIMIT 1
firstPending(rows) ==
  LET pending == {i \in DOMAIN rows : rows[i].status = "pending"}
  IN IF pending = {} THEN NoTask ELSE Min(pending)

\* what the stale-task specification leaves alone
nonStale == <<qvars, evars, avars, dvars, hvars, cvars, lastRead,
              msgs, nextMsg, cursors, ppc, pnow, prcp, pexp, delivered,
              bvars, svars, rvars, lvars, cleaned, optSynthesize, kvars>>

InitStale ==
  /\ IdleBus
  /\ IdleAdapter
  /\ IdleResolve
  /\ IdleRoute
  /\ cleaned = NoClean
  /\ optSynthesize = TRUE
  /\ IdleTokens
  /\ IdleExec
  /\ IdleMsg
  /\ IdleAuth
  /\ IdleDecomp
  /\ IdleWorkers
  /\ tasks = <<>>
  /\ depends = <<>>
  /\ hooks = NoHooks
  /\ fired = <<>>
  /\ lastOp = NoOp
  /\ table = {}
  /\ created = NoCreate
  /\ listed = NoList
  /\ lastRead = NoRead
  /\ staleRows = staleSwarm
  /\ staleSeen = NoStale

\* claimTask(swarmId, w) without checkDeps: the first pending row becomes
\* claimed by w at the current time
StaleClaim(w) ==
  /\ firstPending(staleRows) # NoTask
  /\ staleRows' = [staleRows EXCEPT
                     ![firstPending(staleRows)] =
                        [status |-> "claimed", agent_id |-> w,
                         claimed_at |-> clock]]
  /\ UNCHANGED <<clock, staleSeen>>
  /\ UNCHANGED nonStale

\* markRunning(id), by the worker that claimed the task
StaleRun(i) ==
  /\ staleRows[i].status = "claimed"
  /\ staleRows' = [staleRows EXCEPT ![i].status = "running"]
  /\ UNCHANGED <<clock, staleSeen>>
  /\ UNCHANGED nonStale

\* completeTask(id, result), by the worker that holds the task
StaleComplete(i) ==
  /\ staleRows[i].status \in {"claimed", "running"}
  /\ staleRows' = [staleRows EXCEPT ![i].status = "done"]
  /\ UNCHANGED <<clock, staleSeen>>
  /\ UNCHANGED nonStale

\* getStaleTasks(staleMinutes)
GetStaleTasks(staleMinutes) ==
  /\ staleSeen' = [staleMinutes |-> staleMinutes,
                   ids |-> getStaleTasks(staleRows, clock, staleMinutes),
                   call |-> 1 - staleSeen.call]
  /\ UNCHANGED <<clock, staleRows>>
  /\ UNCHANGED nonStale

\* the periodic reset of stale tasks runs once
CronResetStale ==
  /\ staleRows' = resetStale(staleRows, clock)
  /\ UNCHANGED <<clock, staleSeen>>
  /\ UNCHANGED nonStale

\* time passes
TickStale ==
  /\ clock < LastTick
  /\ clock' = clock + 1
  /\ UNCHANGED <<staleRows, staleSeen>>
  /\ UNCHANGED nonStale

NextStale ==
  \/ \E w \in Workers : StaleClaim(w)
  \/ \E i \in TaskIds : StaleRun(i)
  \/ \E i \in TaskIds : StaleComplete(i)
  \/ \E staleMinutes \in StaleMinutes : GetStaleTasks(staleMinutes)
  \/ CronResetStale
  \/ TickStale

SpecStale == InitStale /\ [][NextStale]_vars

\* the clock runs and the periodic reset keeps running; no worker has to
\* finish anything
SpecStaleFair ==
  SpecStale /\ WF_vars(TickStale) /\ WF_vars(CronResetStale /\ staleRows' # staleRows)

\* ---------------------------------------------------------------------------
\* SpecDeps: a swarm processed only by workers that call claimTask with
\* checkDeps again and again and complete or fail the task they claimed.
\* ---------------------------------------------------------------------------

\* getSwarmStatus: the number of rows with the status
countStatus(ts, status) == Cardinality({i \in DOMAIN ts : ts[i].status = status})

\* status.total > 0 && status.pending === 0 && status.claimed === 0
\* && status.running === 0
isSwarmComplete(ts) ==
  /\ Cardinality(DOMAIN ts) > 0
  /\ countStatus(ts, "pending") = 0
  /\ countStatus(ts, "claimed") = 0
  /\ countStatus(ts, "running") = 0

NextDeps ==
  \/ \E w \in Workers : DepsSelect(w)
  \/ \E w \in Workers : DepsCheck(w)
  \/ \E w \in Workers : DepsWrite(w)
  \/ \E w \in Workers : WorkerRun(w)
  \/ \E w \in Workers : WorkerComplete(w)
  \/ \E w \in Workers : WorkerFail(w)

SpecDeps == InitQueue /\ [][NextDeps]_vars

\* every worker keeps calling claimTask and finishes the task it holds
SpecDepsFair ==
  /\ SpecDeps
  /\ \A w \in Workers :
       /\ WF_vars(DepsSelect(w) \/ DepsCheck(w) \/ DepsWrite(w))
       /\ WF_vars(WorkerComplete(w) \/ WorkerFail(w))

\* ---------------------------------------------------------------------------
\* SpecFilter: readMessages with the type, since and limit options by one
\* agent, on a channel to which one process posts broadcast messages without
\* ttl, one call after the other.
\* ---------------------------------------------------------------------------
MaxFiltered == 3

\* the types of the messages posted
MsgTypes == {"info", "task"}

\* opts.since not given
NoSince == 0 - 1

\* the opts.type and opts.since values passed to readMessages
TypeFilters == {Undefined, "task"}

SinceFilters == {NoSince, 0}

\* "AND type = ?" when opts.type is given, "AND created_at > ?" when
\* opts.since is given
matchesFilters(m, type, since) ==
  /\ type = Undefined \/ m.type = type
  /\ since = NoSince \/ m.created_at > since

\* const messages = db.prepare(query).all(...params), with all the options
readFiltered(rows, agent, cur, now, type, since, limit) ==
  TakeLimit(OrderByCreatedAt({m \in Unread(rows, agent, cur, now) :
                                matchesFilters(m, type, since)}),
            limit)

\* "no readMessages call yet"
NoFilteredRead == [type |-> Undefined, since |-> NoSince, limit |-> DefaultLimit,
                   ids |-> {}, call |-> 0]

InitFilter ==
  /\ IdleExtra
  /\ IdleWorkers
  /\ IdleExec
  /\ IdleAuth
  /\ IdleDecomp
  /\ tasks = <<>>
  /\ depends = <<>>
  /\ hooks = NoHooks
  /\ fired = <<>>
  /\ lastOp = NoOp
  /\ table = {}
  /\ created = NoCreate
  /\ listed = NoList
  /\ IdleMsg
  /\ lastRead = NoFilteredRead

\* postMessage(channel, sender, type, payload, {recipient}), without ttlMinutes
PostTyped(type, recipient) ==
  /\ nextMsg <= MaxFiltered
  /\ msgs' = msgs \cup {[rowid |-> newRowid(msgs), id |-> nextMsg,
                         recipient |-> recipient, type |-> type,
                         created_at |-> clock, expires_at |-> NoExpiry]}
  /\ nextMsg' = nextMsg + 1
  /\ UNCHANGED <<cursors, clock, ppc, pnow, prcp, pexp, delivered, lastRead>>
  /\ UNCHANGED nonDirect

\* readMessages(channel, {agentId: a, type, since, limit}): the cursor moves
\* to the last message returned, if any
ReadFiltered(a, type, since, limit) ==
  /\ LET messages == readFiltered(msgs, a, cursors[a], clock, type, since, limit)
         ids == {messages[k].id : k \in 1 .. Len(messages)} IN
       /\ cursors' = IF Len(messages) > 0
                     THEN [cursors EXCEPT ![a] = messages[Len(messages)].id]
                     ELSE cursors
       /\ delivered' = [delivered EXCEPT ![a] =
                          @ \o [k \in 1 .. Len(messages) |-> messages[k].id]]
       /\ lastRead' = [type |-> type, since |-> since, limit |-> limit,
                       ids |-> ids, call |-> 1 - lastRead.call]
  /\ UNCHANGED <<msgs, nextMsg, clock, ppc, pnow, prcp, pexp>>
  /\ UNCHANGED nonDirect

\* time passes
TickFilter ==
  /\ clock < MaxClock
  /\ clock' = clock + 1
  /\ UNCHANGED <<msgs, nextMsg, cursors, ppc, pnow, prcp, pexp, delivered,
                 lastRead>>
  /\ UNCHANGED nonDirect

NextFilter ==
  \/ \E type \in MsgTypes : PostTyped(type, Null)
  \/ \E type \in TypeFilters : \E since \in SinceFilters :
       \E limit \in Limits : ReadFiltered(Reader, type, since, limit)
  \/ TickFilter

SpecFilter == InitFilter /\ [][NextFilter]_vars

\* ---------------------------------------------------------------------------
\* Claims about the task queue
\* ---------------------------------------------------------------------------

\* C1: whatever the interleaving of the statements of concurrent claimTask
\* calls (with or without checkDeps), a row is returned by at most one
\* claimTask call between two moments at which it was put back to pending.
C1_ClaimedAtMostOnce == \A t \in TaskIds : grants[t] <= 1

\* C1 witness: a row has been handed to one worker while another worker, which
\* selected the same row as its candidate, has its UPDATE still to run.
C1_RaceWitness ==
  \E t \in TaskIds : \E w1, w2 \in Workers :
    /\ w1 # w2
    /\ wheld[w1] = t
    /\ grants[t] = 1
    /\ wcand[w2] = t
    /\ wpc[w2] \in {"update", "depsUpdate"}

\* the step at which a claimTask(..., {checkDeps: true}) call of w returns a row
DepsReturn(w) == wpc[w] = "depsUpdate" /\ wheld'[w] # NoTask

\* C2 (as claimed): claimTask with checkDeps never returns a row while a row
\* named in its depends_on has a status other than done.
C2_DepsDoneAtReturn ==
  [][\A w \in Workers :
       DepsReturn(w) =>
         \A d \in depends[wheld'[w]] : tasks'[d].status = "done"]_vars

\* C4 (as claimed): once a row is done or failed, no operation changes its
\* status.
C4_TerminalNeverMoves ==
  [][\A t \in TaskIds :
       tasks[t].status \in {"done", "failed"} =>
         tasks'[t].status = tasks[t].status]_vars

\* ---------------------------------------------------------------------------
\* Claims about executeDecomposed
\* ---------------------------------------------------------------------------

\* the subtasks whose row is the business of subtask i according to taskIds[i]
Subtasks == DOMAIN est

\* C9 (as claimed): when the run has returned, every subtask with a failed
\* dependency has its row failed with the error 'Dependency subtask <d> failed'
\* of one of its dependencies and no router call was made for it, and every
\* subtask without a failed dependency was executed.
C9_DependentsEndFailed ==
  epc = "returned" =>
    \A j \in Subtasks :
      IF FailedDeps(depends, errors, j) # {}
      THEN /\ tasks[j].status = "failed"
           /\ tasks[j].error \in {DepFailedMsg(d) : d \in depends[j]}
           /\ eclaimed[j] = NoTask
      ELSE eclaimed[j] # NoTask

\* the step claims row t, marks it running, or sends subtask t to the router
Engages(t) ==
  \/ tasks[t].status # "claimed" /\ tasks'[t].status = "claimed"
  \/ tasks[t].status # "running" /\ tasks'[t].status = "running"
  \/ est[t] = "new" /\ est'[t] = "inflight"

\* C3 (as claimed): no task is claimed, marked running or sent to the router
\* unless every task in its depends_on has status done at that moment.
C3_DepsDoneBeforeStart ==
  [][\A t \in Subtasks :
       Engages(t) => \A d \in depends[t] : tasks'[d].status = "done"]_vars

\* a router call is made for subtask i in this step
RouterCalled(i) == est[i] # "inflight" /\ est'[i] = "inflight"

\* C8 (as claimed): at most maxRetries + 1 router calls per subtask; a call
\* after the first follows a transient failure of attempt k and a timer of
\* 1000 * 2^k ms; a non-transient failure ends the subtask at once; and when
\* the run returns, the task of a subtask that called the router is done if a
\* call succeeded and failed with the last error message otherwise.
C8_RetryAndOutcome ==
  [][\A i \in Subtasks :
       /\ eattempt'[i] <= maxRetries
       /\ (RouterCalled(i) /\ est[i] # "new") =>
            /\ est[i] = "backoff"
            /\ isTransient(elast[i])
            /\ eattempt'[i] = eattempt[i] + 1
            /\ edelay[i] = delayMs(eattempt[i])
       /\ (est[i] = "inflight" /\ elast'[i] # Null /\ ~isTransient(elast'[i])) =>
            est'[i] = "failed"
       /\ (epc # "returned" /\ epc' = "returned" /\ eclaimed[i] # NoTask) =>
            IF results[i] # Null
            THEN tasks'[i].status = "done"
            ELSE tasks'[i].status = "failed" /\ tasks'[i].error = elast[i]]_vars

\* ---------------------------------------------------------------------------
\* Claims about the message bus
\* ---------------------------------------------------------------------------

\* C5 (as claimed): no message is returned by two reads of the same agent.
C5_NoMessageTwice ==
  \A a \in Agents : \A i, j \in 1 .. Len(delivered[a]) :
    i # j => delivered[a][i] # delivered[a][j]

\* C6 (as claimed): what an agent's reads return, one read after the other,
\* is in insertion order.
C6_InsertionOrder ==
  \A a \in Agents : \A i, j \in 1 .. Len(delivered[a]) :
    i < j => delivered[a][i] < delivered[a][j]

\* ---------------------------------------------------------------------------
\* Claims about the OAuth refresh
\* ---------------------------------------------------------------------------

\* C7: at most one refresh request is in flight; a refresh that found a
\* refresh token sent exactly one request; every caller that found the token
\* expired waits for the refresh in flight and, once resumed, holds that
\* refresh's outcome (its new token or its error); and _refreshRunning is set
\* exactly while a refresh is unsettled, so that a later expiry starts a new one.
C7_OneRefreshShared ==
  /\ Cardinality({k \in Refreshes : pstatus[k] \in {"fetching", "throwing"}}) <= 1
  /\ \A k \in Refreshes :
       /\ psent[k] <= 1
       /\ pstatus[k] \in {"fetching", "ok"} => psent[k] = 1
       /\ pstatus[k] \in {"fetching", "throwing"} <=> refreshRunning = k
  /\ \A c \in Callers :
       /\ cpc[c] = "waiting" => pstatus[cjoin[c]] # "none"
       /\ (cpc[c] \in {"resolved", "rejected"} /\ cjoin[c] # 0) =>
            /\ cgot[c] = pvalue[cjoin[c]]
            /\ cpc[c] = "resolved" <=> pstatus[cjoin[c]] = "ok"

\* C7 witness: two calls found the token expired and shared refresh 1, both
\* have resumed with its token, and after a later expiry a second refresh is
\* in flight.
C7_SharedRefreshWitness ==
  \E c1, c2 \in Callers :
    /\ c1 # c2
    /\ cpc[c1] = "resolved" /\ cpc[c2] = "resolved"
    /\ cjoin[c1] = 1 /\ cjoin[c2] = 1
    /\ cgot[c1] = NewAccess(1) /\ cgot[c2] = NewAccess(1)
    /\ psent[1] = 1
    /\ pstatus[2] = "fetching"

\* ---------------------------------------------------------------------------
\* Claims about decompose
\* ---------------------------------------------------------------------------

\* what C10 requires of the parsed array for a subtask list to be returned
C10_Acceptable(arr) ==
  /\ Len(arr) > 0
  /\ \A i \in 1 .. Len(arr) :
       /\ arr[i].description \notin {Undefined, ""}
       /\ arr[i].depends_on.kind # "scalar"
       /\ \A k \in 1 .. Len(arr[i].depends_on.list) :
            LET d == arr[i].depends_on.list[k] IN
              d.t = "integer" /\ 0 <= d.v /\ d.v < i - 1

\* C10: decompose returns a list exactly when the parsed array is non-empty,
\* every entry has a description and every depends_on element is an integer
\* below the entry's index; the list is the input with capability, mode and
\* depends_on defaulted to reasoning, inline and []; otherwise it throws, and
\* swarm rows exist only after it returned.
C10_DecomposeValidates ==
  /\ dpc # "parsed" =>
       /\ dout.ok <=> C10_Acceptable(dinput)
       /\ dout.ok =>
            /\ Len(dout.subtasks) = Len(dinput)
            /\ \A i \in 1 .. Len(dinput) :
                 LET in == dinput[i]
                     st == dout.subtasks[i] IN
                   /\ st.description = in.description
                   /\ st.capability = IF in.capability = Undefined
                                      THEN "reasoning" ELSE in.capability
                   /\ st.mode = IF in.mode = Undefined THEN "inline" ELSE in.mode
                   /\ st.depends_on.list = in.depends_on.list
       /\ ~dout.ok => dout.error # Null
  /\ tasks # <<>> => dpc = "queued" /\ dout.ok
  /\ dpc = "threw" => tasks = <<>>

\* C10 witness: a two-entry array whose second entry depends on the first and
\* leaves capability and mode out was accepted, defaulted and queued.
C10_AcceptedWitness ==
  /\ dpc = "queued"
  /\ Len(dinput) = 2
  /\ dinput[2].depends_on.list = <<IntDep(0)>>
  /\ dinput[2].capability = Undefined
  /\ dout.subtasks[2].capability = "reasoning"
  /\ depends[1] = {0}

\* ---------------------------------------------------------------------------
\* C11  With n pending tasks and k concurrent claimTask calls (no checkDeps,
\*      nothing else running), once every call has returned exactly min(n, k)
\*      of them returned a task, the returned tasks are distinct and have
\*      status claimed, and the other calls returned none.
\* ---------------------------------------------------------------------------
AllCallsReturned == \A c \in Claimers : wpc[c] \in {"returned", "absent"}

CallsMade == {c \in Claimers : wpc[c] # "absent"}

CallsGranted == {c \in Claimers : wheld[c] # NoTask}

C11_MinOfTasksAndCallers ==
  AllCallsReturned =>
    /\ Cardinality(CallsGranted) =
         Min({Cardinality(DOMAIN tasks), Cardinality(CallsMade)})
    /\ \A c, d \in CallsGranted : c # d => wheld[c] # wheld[d]
    /\ \A c \in CallsGranted : tasks[wheld[c]].status = "claimed"

\* what the calls do guarantee: no task twice, and no call comes back empty
\* while every other call did too and a task is pending
C11_AtMostMin ==
  AllCallsReturned =>
    /\ Cardinality(CallsGranted) <=
         Min({Cardinality(DOMAIN tasks), Cardinality(CallsMade)})
    /\ \A c, d \in CallsGranted : c # d => wheld[c] # wheld[d]
    /\ \A c \in CallsGranted : tasks[wheld[c]].status = "claimed"
    /\ (DOMAIN tasks # {}) => CallsGranted # {}

\* ---------------------------------------------------------------------------
\* C12  resetTask on a task that is not done or failed leaves it pending with
\*      agent_id and claimed_at cleared, changes no other column and no other
\*      row, and claimTask hands the task out again.
\* ---------------------------------------------------------------------------
C12_ResetReleases ==
  [][\A t \in TaskIds :
       (/\ lastOp'.op = "resetTask"
        /\ lastOp'.id = t
        /\ tasks[t].status \in {"pending", "claimed", "running"})
       => /\ tasks' = [tasks EXCEPT ![t] = [status |-> "pending",
                                             agent_id |-> Null,
                                             claimed_at |-> Null,
                                             completed_at |-> tasks[t].completed_at,
                                             result |-> tasks[t].result,
                                             error |-> tasks[t].error]]
          /\ depends' = depends
          /\ \A a \in Workers :
               FirstPending(tasks') = t => claimTask(tasks', a).id = t]_vars

\* a claimed or running task has just been reset and is the one the next
\* claimTask returns
C12_ResetWitness ==
  \E t \in TaskIds :
    /\ lastOp.op = "resetTask"
    /\ lastOp.id = t
    /\ lastOp.was \in {"claimed", "running"}
    /\ tasks[t].status = "pending"
    /\ tasks[t].agent_id = Null
    /\ FirstPending(tasks) = t

\* ---------------------------------------------------------------------------
\* C13  Every row with status claimed, running, done or failed has a
\*      claimed_at (data-model invariant (c)).
\* ---------------------------------------------------------------------------
C13_ClaimedAtSet ==
  \A t \in DOMAIN tasks :
    tasks[t].status \in {"claimed", "running", "done", "failed"}
      => tasks[t].claimed_at # Null

\* ---------------------------------------------------------------------------
\* C14  A row has a completed_at exactly when its status is done or failed
\*      (data-model invariant (d)).
\* ---------------------------------------------------------------------------
C14_CompletedAtIffTerminal ==
  \A t \in DOMAIN tasks :
    (tasks[t].completed_at # Null) <=> (tasks[t].status \in {"done", "failed"})

\* ---------------------------------------------------------------------------
\* C15  A markRunning, completeTask or failTask call for a task that is still
\*      pending (so that no caller holds it) leaves the row unchanged.
\* ---------------------------------------------------------------------------
C15_OnlyHolderMoves ==
  [][\A t \in TaskIds :
       (/\ lastOp'.op \in {"markRunning", "completeTask", "failTask"}
        /\ lastOp'.id = t
        /\ tasks[t].status = "pending")
       => tasks'[t] = tasks[t]]_vars

\* ---------------------------------------------------------------------------
\* C16  A createSwarm call with n tasks that returns has added exactly the n
\*      rows '<swarmId>-task-i' with seq i and status pending, and returns
\*      their ids in that order; a call in which an insert fails adds no row;
\*      in both cases the rows that existed are unchanged; getSwarmResults
\*      returns the rows of the swarm, in ascending seq.
\* ---------------------------------------------------------------------------
NewRows(sid, taskList) ==
  {[id |-> TaskIdOf(sid, i), swarm_id |-> sid, seq |-> i,
    description |-> taskList[i + 1].description, status |-> "pending"] :
     i \in 0 .. (Len(taskList) - 1)}

C16_CreateSwarmAllOrNothing ==
  [][/\ created'.call # created.call =>
          LET sid == created'.swarmId
              taskList == created'.tasks
              n == Len(taskList) IN
            /\ table \subseteq table'
            /\ IF created'.threw
               THEN table' = table
               ELSE /\ table' = table \cup NewRows(sid, taskList)
                    /\ Cardinality(table') = Cardinality(table) + n
                    /\ created'.taskIds =
                         [k \in 1 .. n |-> TaskIdOf(sid, k - 1)]
            /\ created'.threw <=>
                 \E i \in 0 .. (n - 1) :
                   \/ taskList[i + 1].description = Null
                   \/ \E r \in table : r.id = TaskIdOf(sid, i)
     /\ listed' # listed =>
          LET sid == listed'.swarmId
              rows == listed'.rows IN
            /\ {rows[k] : k \in 1 .. Len(rows)} =
                 {r \in table : r.swarm_id = sid}
            /\ Len(rows) = Cardinality({r \in table : r.swarm_id = sid})
            /\ \A j, k \in 1 .. Len(rows) :
                 j < k => rows[j].seq < rows[k].seq]_vars

\* a createSwarm call failed at its second insert while the table held a
\* claimed row of another swarm
C16_RollbackWitness ==
  /\ created.threw
  /\ Len(created.tasks) = 2
  /\ created.tasks[1].description # Null
  /\ ~ \E r \in table : r.id = TaskIdOf(created.swarmId, 0)
  /\ \E r \in table : r.swarm_id # created.swarmId /\ r.status = "claimed"
  /\ Len(listed.rows) = 2

\* ---------------------------------------------------------------------------
\* C17  When executeDecomposed returns, success is true exactly when no
\*      subtask recorded an error, which is exactly when every row of the
\*      swarm is done; and for every subtask the calls of onSubtaskComplete
\*      and onSubtaskError together number exactly one.
\* ---------------------------------------------------------------------------
C17_SuccessIffNoError ==
  epc = "returned" =>
    /\ allSuccess <=> (\A i \in Subtasks : errors[i] = Null)
    /\ allSuccess <=> (\A t \in DOMAIN tasks : tasks[t].status = "done")

C17_OneCallbackPerSubtask ==
  epc = "returned" =>
    \A i \in Subtasks : ecomplete[i] + eerror[i] = 1

C17_SuccessAndCallbacks ==
  C17_SuccessIffNoError /\ C17_OneCallbackPerSubtask

\* ---------------------------------------------------------------------------
\* C18  A claimTask that returned a row, and a completeTask, failTask or
\*      resetTask on a row of the table, has called every hook registered
\*      for its event exactly once, in registration order, with the row
\*      already updated; a hook that throws neither stops the later hooks
\*      nor changes the row nor makes the call fail; a claimTask that
\*      returned none called no hook.
\* ---------------------------------------------------------------------------
\* the event of an operation and the status its UPDATE writes
EventOf(op) ==
  CASE op \in {"claimTask", "claimTaskCheckDeps"} -> "onClaim"
    [] op = "completeTask" -> "onComplete"
    [] op = "failTask" -> "onFail"
    [] op = "resetTask" -> "onReset"

StatusAfter(op) ==
  CASE op \in {"claimTask", "claimTaskCheckDeps"} -> "claimed"
    [] op = "completeTask" -> "done"
    [] op = "failTask" -> "failed"
    [] op = "resetTask" -> "pending"

C18_HooksFireOnce ==
  /\ (lastOp.op \in {"claimTask", "claimTaskCheckDeps", "completeTask",
                      "failTask", "resetTask"} /\ lastOp.id \in TaskIds) =>
       LET registered == hooks[EventOf(lastOp.op)] IN
         /\ Len(fired) = Len(registered)
         /\ \A k \in 1 .. Len(fired) :
              /\ fired[k].event = EventOf(lastOp.op)
              /\ fired[k].hook = registered[k].name
              /\ fired[k].id = lastOp.id
              /\ fired[k].seen = StatusAfter(lastOp.op)
         /\ tasks[lastOp.id].status = StatusAfter(lastOp.op)
         /\ lastOp.threw = Null
  /\ (lastOp.op \in {"claimTask", "claimTaskCheckDeps"}
        /\ lastOp.id = NoTask) => fired = <<>>

\* what holds of every registry: the hooks called are the registered ones
\* in order, from the first on, each once and with the row already updated;
\* the row is updated whatever the hooks do; and with hooks that return or
\* throw an Error all of them are called and the operation returns
C18_HooksThatThrowErrors ==
  /\ (lastOp.op \in {"claimTask", "claimTaskCheckDeps", "completeTask",
                      "failTask", "resetTask"} /\ lastOp.id \in TaskIds) =>
       LET registered == hooks[EventOf(lastOp.op)] IN
         /\ Len(fired) <= Len(registered)
         /\ \A k \in 1 .. Len(fired) :
              /\ fired[k].event = EventOf(lastOp.op)
              /\ fired[k].hook = registered[k].name
              /\ fired[k].id = lastOp.id
              /\ fired[k].seen = StatusAfter(lastOp.op)
         /\ tasks[lastOp.id].status = StatusAfter(lastOp.op)
         /\ hooks # NullThrowingHooks =>
              Len(fired) = Len(registered) /\ lastOp.threw = Null
  /\ (lastOp.op \in {"claimTask", "claimTaskCheckDeps"}
        /\ lastOp.id = NoTask) => fired = <<>>

\* ---------------------------------------------------------------------------
\* C19  markRunning, completeTask, failTask and resetTask called with an id
\*      that names no row throw a task-not-found error, change no row and
\*      call no hook.
\* ---------------------------------------------------------------------------
OnMissingRow ==
  /\ lastOp'.op \in {"markRunning", "completeTask", "failTask", "resetTask"}
  /\ lastOp'.id \notin DOMAIN tasks

C19_TaskNotFound ==
  [][OnMissingRow =>
       /\ tasks' = tasks
       /\ lastOp'.threw = "TaskNotFound"
       /\ fired' = <<>>]_vars

\* the part that holds: no row changes
C19_NoRowChanges ==
  [][OnMissingRow => tasks' = tasks]_vars

\* ---------------------------------------------------------------------------
\* C20  readMessages(channel, {agentId: a}) returns no message addressed to
\*      an agent other than a; readDirect(a, from) returns only messages
\*      addressed to a, and only messages sent by from when from is given.
\* ---------------------------------------------------------------------------
C20_OnlyOwnMessages ==
  \A k \in 1 .. Len(lastRead.rows) :
    LET m == lastRead.rows[k] IN
      /\ lastRead.op = "readMessages" =>
           /\ m.recipient \in {Null, lastRead.agent}
           /\ m.channel = lastRead.channel
      /\ lastRead.op = "readDirect" =>
           /\ m.recipient = lastRead.agent
           /\ lastRead.from # Null => m.sender = lastRead.from

\* readDirect(a, from) returned a message while the table held an unexpired
\* message for another agent and one for a from another sender
C20_FilteredWitness ==
  /\ lastRead.op = "readDirect"
  /\ lastRead.from # Null
  /\ Len(lastRead.rows) = 1
  /\ \E m \in msgs :
       /\ m.expires_at = NoExpiry
       /\ \/ m.recipient \notin {Null, lastRead.agent}
          \/ m.recipient = lastRead.agent /\ m.sender # lastRead.from

\* ---------------------------------------------------------------------------
\* Claims about expiry, context and validation on the message bus
\* ---------------------------------------------------------------------------

\* more than ttlMinutes have passed at time now since row m was posted
Outlived(m, now) == m.ttlMinutes > 0 /\ now > m.created_at + m.ttlMinutes

\* the rows the last read returned
SeenRows == {seen.rows[k] : k \in 1 .. Len(seen.rows)}

\* C21: a message posted with ttlMinutes = n > 0 is not returned by
\* readMessages, readDirect or getContext once more than n minutes have passed
\* since it was posted, whether or not cleanExpired has run.
C21_ExpiredNeverReturned == \A m \in SeenRows : ~ Outlived(m, seen.at)

\* C21, second part: no step deletes a message posted without ttlMinutes, and
\* readDirect returns every such message addressed to the reader.
C21_NoTtlNeverExpires ==
  [][/\ \A m \in msgs : m.ttlMinutes = NoTtl => m \in msgs'
     /\ seen'.call # seen.call /\ seen'.op = "readDirect"
          => \A m \in msgs : m.ttlMinutes = NoTtl /\ m.recipient = Reader
                               => m \in {seen'.rows[k] :
                                           k \in 1 .. Len(seen'.rows)}]_vars

\* the key of a context row
KeyOf(m) == parse(Str(m.payload)).key

\* the context rows of the channel with the key that have not outlived
\* their ttlMinutes at time now
LiveContext(rows, channel, key, now) ==
  {m \in rows : /\ m.channel = channel
                /\ m.type = "context"
                /\ KeyOf(m) = key
                /\ ~ Outlived(m, now)}

\* the row of the most recent call
Latest(S) == CHOOSE m \in S : \A y \in S : m.id >= y.id

\* the value getContext returned (Null: null)
ReturnedValue(rows) ==
  IF rows = <<>> THEN Null ELSE parse(Str(rows[1].payload)).value

\* C22: getContext(channel, key) returns the value of the most recent
\* shareContext call for that key that has not expired, however many entries
\* of other keys were shared after it, and null when there is none.
C22_LatestValueForKey ==
  [][seen'.call # seen.call /\ seen'.op = "getContext"
       => LET live == LiveContext(msgs, SwarmChannel, seen'.key, clock) IN
            ReturnedValue(seen'.rows) =
              IF live = {} THEN Null
              ELSE parse(Str(Latest(live).payload)).value]_vars

\* the types of the specification
MessageTypes == {"data", "signal", "context", "error"}

\* a call without a channel, without a sender, with a null or missing
\* payload, or with a type outside MessageTypes
Rejected(a) ==
  \/ a.channel = Undefined
  \/ a.sender = Undefined
  \/ a.payload.t \in {"null", "undefined"}
  \/ typeOf(a) \notin MessageTypes

\* the call stored exactly one message, of type data when no type was given
StoredOne(a, before, after) ==
  \E m \in after \ before :
    /\ after = before \cup {m}
    /\ m.id = posted'.stored
    /\ a.type = Undefined => m.type = "data"

\* C23: postMessage without a channel, without a sender, with a null or
\* missing payload, or with a type outside {data, signal, context, error}
\* throws and stores no message; any other call stores exactly one message,
\* of type data when no type is given.
C23_PostMessageValidates ==
  [][posted' # posted
       => IF Rejected(posted'.call)
          THEN posted'.threw # Null /\ msgs' = msgs
          ELSE posted'.threw = Null /\ StoredOne(posted'.call, msgs, msgs')]_vars

\* C23, the part that holds: a call without channel, sender or payload
\* argument throws and stores nothing, and a call that passes every check
\* stores exactly one message.
C23_MissingArgumentFails ==
  [][posted' # posted
       => /\ \/ posted'.call.channel = Undefined
             \/ posted'.call.sender = Undefined
             \/ posted'.call.payload.t = "undefined"
               => posted'.threw # Null /\ msgs' = msgs
          /\ ~ Rejected(posted'.call)
               => posted'.threw = Null
                    /\ StoredOne(posted'.call, msgs, msgs')]_vars

\* C24: a message posted with ttlMinutes = 0 is never returned by
\* readMessages, readDirect or getContext.
C24_ZeroTtlNeverReturned == \A m \in SeenRows : m.ttlMinutes # 0

\* ---------------------------------------------------------------------------
\* Claims about the provider adapters
\* ---------------------------------------------------------------------------

\* at most one smoke-test request is in flight, it is the one in
\* _smokeTestRunning, and no smoke test sends more than one request
OneSmokeTestInFlight ==
  /\ Cardinality({k \in SmokeTests : sstatus[k] = "fetching"}) <= 1
  /\ \A k \in SmokeTests :
       /\ ssent[k] <= 1
       /\ sstatus[k] = "fetching" => smokeRunning = k /\ ssent[k] = 1

\* a call that found the smoke test not passed waits for a smoke test that
\* was started, and has sent nothing while it waits
WaitingCallsShareIt ==
  \A c \in Callers :
    apc[c] = "smoke" => /\ ajoin[c] # 0
                        /\ sstatus[ajoin[c]] # "none"
                        /\ asent[c] = 0

\* a call whose smoke test failed fails without a completion request
FailedSmokeTestSendsNothing ==
  \A c \in Callers :
    (ajoin[c] # 0 /\ sstatus[ajoin[c]] = "failed")
      => asent[c] = 0 /\ apc[c] \in {"smoke", "threw"}

\* a completion request is sent only with _smokeTestPassed set, or after the
\* smoke test the call waited for has passed (or was skipped with
\* SKIP_SMOKE_TEST=1)
SendsOnlyAfterPass ==
  \A c \in Callers :
    asent'[c] > asent[c]
      => \/ smokeTestPassed
         \/ ajoin[c] # 0 /\ sstatus[ajoin[c]] = "passed"
         \/ ajoin[c] # 0 /\ sstatus[ajoin[c]] = "skipped" /\ skipSmoke

\* C25: when several calls of one adapter start before its smoke test has
\* passed, at most one smoke-test request is in flight and the calls wait for
\* it; no call sends its completion request unless the smoke test passed (or
\* SKIP_SMOKE_TEST=1), and when it fails each waiting call fails without
\* sending one.
C25_OneSmokeTestShared ==
  /\ [](OneSmokeTestInFlight /\ WaitingCallsShareIt
          /\ FailedSmokeTestSendsNothing)
  /\ [][SendsOnlyAfterPass]_vars

\* C25 witness: two calls shared smoke test 1, which failed, and both threw
\* without a request; a third call started smoke test 2, which passed, and
\* has sent its completion request.
C25_SharedSmokeTestWitness ==
  \E c1, c2, c3 \in Callers :
    /\ c1 # c2
    /\ ajoin[c1] = 1 /\ ajoin[c2] = 1 /\ ajoin[c3] = 2
    /\ sstatus[1] = "failed" /\ sstatus[2] = "passed"
    /\ ssent[1] = 1 /\ ssent[2] = 1
    /\ apc[c1] = "threw" /\ apc[c2] = "threw"
    /\ asent[c1] = 0 /\ asent[c2] = 0
    /\ apc[c3] = "request" /\ asent[c3] = 1

\* the call of c is over
Ended(c) == apc[c] \in {"returned", "threw"}

\* the records of a call that is over are as C26 says
LoggedOnce(c) ==
  IF askip[c] THEN alog[c] = <<>>
  ELSE /\ Len(alog[c]) = 1
       /\ alog[c][1].ok = (apc[c] = "returned")
       /\ ~ alog[c][1].ok => alog[c][1].error # Null

\* C26: every adapter call with skipLog false, whether it returns or fails
\* (auth failure, smoke-test failure, HTTP error or timeout), hands exactly
\* one record to logLlmCall, with ok = true exactly when the call succeeded
\* and a non-null error when ok = false; with skipLog true it hands over none.
C26_EveryCallLogged ==
  \A c \in Callers :
    /\ Len(alog[c]) <= 1
    /\ Ended(c) => LoggedOnce(c)

\* C26, the part that holds: a call that sent its completion request is
\* logged as C26 says, and no call is logged with skipLog true.
C26_RequestsLogged ==
  \A c \in Callers :
    /\ Len(alog[c]) <= 1
    /\ askip[c] => alog[c] = <<>>
    /\ (Ended(c) /\ asent[c] = 1) => LoggedOnce(c)


\* ---------------------------------------------------------------------------
\* Claims about the router's model resolution
\* ---------------------------------------------------------------------------
\* the names resolveModel can answer with: a registered model or the
\* caller's own model
ModelNames == DOMAIN AGENT_REGISTRY \cup (ModelArgs \ {Undefined, ""})

\* C27: resolveModel returns a non-empty model name and never throws, for
\* every strategy value (unknown and missing ones and 'specific' without a
\* model included), every capability (one no model has included) and every
\* content of the call log (an unreadable store included).
C27_AlwaysAModelName ==
  resolved # NoResolve => resolved.result \in ModelNames

\* an unknown strategy, a capability no model has, no model, on an
\* unreadable store: the hard fallback answers
C27_HardFallbackWitness ==
  /\ resolved.strategy = "smartest"
  /\ resolved.capability = "vision"
  /\ resolved.model = Undefined
  /\ ~ storeReadable
  /\ resolved.result = "claude-sonnet-4-5"

\* the call log has no row
EmptyLog == \A m \in LoggedModels : llmCalls[m].call_count = 0

\* the pool of a capability: the models that have it, all models when none has
poolOf(capability) ==
  IF capability = Undefined \/ getModelsWithCapability(capability) = <<>>
  THEN getAllModels
  ELSE getModelsWithCapability(capability)

\* every capability some registered model has
RegistryCapabilities ==
  UNION {AGENT_REGISTRY[m].capabilities : m \in DOMAIN AGENT_REGISTRY}

\* m is a model of the pool and none of the pool has a lower defaultTimeoutMs
LowestTimeout(m, pool) ==
  /\ includes(pool, m)
  /\ \A k \in 1 .. Len(pool) :
       AGENT_REGISTRY[m].defaultTimeoutMs
         <= AGENT_REGISTRY[pool[k]].defaultTimeoutMs

\* C28: with an empty call log 'cheapest' and 'fastest' answer
\* claude-haiku-4-5, 'best' claude-opus-4-5, 'balanced' claude-sonnet-4-5,
\* 'best' with capability multimodal gpt-4o, 'specific' with model m answers
\* m; and the answer of 'fastest' is a model of the pool with the lowest
\* defaultTimeoutMs.
C28_EmptyLogChoices ==
  (resolved # NoResolve /\ EmptyLog) =>
    /\ (resolved.capability = Undefined
          /\ resolved.strategy \in {"cheapest", "fastest"})
         => resolved.result = "claude-haiku-4-5"
    /\ (resolved.capability = Undefined /\ resolved.strategy = "best")
         => resolved.result = "claude-opus-4-5"
    /\ (resolved.capability = Undefined /\ resolved.strategy = "balanced")
         => resolved.result = "claude-sonnet-4-5"
    /\ (resolved.capability = "multimodal" /\ resolved.strategy = "best")
         => resolved.result = "gpt-4o"
    /\ (resolved.strategy = "specific" /\ resolved.model # Undefined)
         => resolved.result = resolved.model
    /\ resolved.strategy = "fastest"
         => LowestTimeout(resolved.result, poolOf(resolved.capability))
    /\ \A capability \in RegistryCapabilities :
         LowestTimeout(resolveModel("fastest", capability, Undefined,
                                    llmCalls, storeReadable),
                       poolOf(capability))

\* 'fastest' has chosen among the three models that can review
C28_FastestInPoolWitness ==
  /\ EmptyLog
  /\ resolved.strategy = "fastest"
  /\ resolved.capability = "review"
  /\ resolved.result = "claude-haiku-4-5"
  /\ Len(poolOf("review")) = 3


\* ---------------------------------------------------------------------------
\* Claims about model normalization
\* ---------------------------------------------------------------------------
\* the identifiers the claim speaks of: a name, or a name after one of the
\* three provider prefixes
PlainOrPrefixed(model) ==
  \/ Len(model) = 1
  \/ Len(model) = 2 /\ model[1] \in {"anthropic", "openai", "openai-codex"}

\* the canonical name of an identifier: its last part, looked up in the
\* canonical alias table
CanonicalName(model) ==
  LET n == model[Len(model)]
  IN IF n \in DOMAIN CanonicalAliases THEN <<CanonicalAliases[n]>> ELSE <<n>>

\* C29: normalization strips a leading provider prefix (anthropic/, openai/,
\* openai-codex/) and then maps every alias of the canonical table to its
\* canonical name (codex -> gpt-5.3-codex included); runLlm with model
\* 'anthropic/claude-sonnet-4' resolves to claude-sonnet-4-5 and is
\* dispatched to the anthropic adapter.
C29_NormalizesAndRoutes ==
  routed # NoRoute =>
    /\ PlainOrPrefixed(routed.model)
         => routed.normalized = CanonicalName(routed.model)
    /\ routed.model = <<"anthropic", "claude-sonnet-4">>
         => /\ routed.normalized = <<"claude-sonnet-4-5">>
            /\ routed.adapter = "anthropic"

\* C29, the part that holds of both routers: 'anthropic/claude-sonnet-4'
\* loses its prefix and is dispatched to the anthropic adapter
C29_DispatchedToAnthropic ==
  routed.model = <<"anthropic", "claude-sonnet-4">>
    => /\ routed.normalized = <<"claude-sonnet-4">>
       /\ routed.provider = "anthropic"
       /\ routed.adapter = "anthropic"
       /\ routed.threw = Null

\* C29, the part that holds of normalizeAnthropicModel: anthropic/ and
\* openai/ are stripped and the aliases of MODEL_ALIASES are resolved
C29_SourceAliases ==
  (/\ router = "anthropic only"
   /\ routed # NoRoute
   /\ PlainOrPrefixed(routed.model)
   /\ routed.model[1] # "openai-codex"
   /\ routed.model[Len(routed.model)] # "codex")
    => routed.normalized = CanonicalName(routed.model)

\* C29, what normalizeAnthropicModel does with
\* 'openai-codex/gpt-5.3-codex': the prefix stays and the call ends with
\* "Unknown provider"
C29_CodexPrefixStays ==
  (/\ router = "anthropic only"
   /\ routed.model = <<"openai-codex", "gpt-5.3-codex">>)
    => /\ routed.normalized = routed.model
       /\ routed.adapter = Null
       /\ routed.threw = "Unknown provider"


\* ---------------------------------------------------------------------------
\* Claims about the clean-up of completed swarms
\* ---------------------------------------------------------------------------
\* the swarms in which every task is done or failed and whose latest
\* completed_at is older than the cutoff of the call made in this step
OldTerminalSwarms ==
  {sid \in SwarmIds :
     /\ rowsOf(table, sid) # {}
     /\ \A r \in rowsOf(table, sid) : r.status \in {"done", "failed"}
     /\ maxCompletedAt(table, sid)
          < clock - cleaned'.retentionDays * TicksPerDay}

\* the rows a cleanCompletedSwarms step deletes
DeletedRows == table \ table'

\* C30: cleanCompletedSwarms(retentionDays) deletes all rows of exactly those
\* swarms in which every task is done or failed and whose latest completed_at
\* is older than the cutoff, and returns the number of deleted rows; it never
\* deletes a row of a swarm that still has a pending, claimed or running task
\* or that completed within the retention period.
C30_DeletesExactlyOldTerminal ==
  [][cleaned'.call # cleaned.call =>
       /\ DeletedRows = {r \in table : r.swarm_id \in OldTerminalSwarms}
       /\ table' = table \ DeletedRows
       /\ cleaned'.changes = Cardinality(DeletedRows)]_vars

\* C30, the part that holds: only rows of old terminal swarms are deleted,
\* a swarm is deleted as a whole or not at all, and the number of deleted
\* rows is returned
C30_DeletesOnlyOldTerminal ==
  [][cleaned'.call # cleaned.call =>
       /\ \A r \in DeletedRows : r.swarm_id \in OldTerminalSwarms
       /\ \A r \in DeletedRows : rowsOf(table, r.swarm_id) \subseteq DeletedRows
       /\ table' = table \ DeletedRows
       /\ cleaned'.changes = Cardinality(DeletedRows)]_vars

\* C30, what the code does: a terminal swarm is deleted when its latest
\* completed_at lies on a UTC day before the day of the cutoff
C30_DeletesByDay ==
  [][cleaned'.call # cleaned.call =>
       DeletedRows =
         {r \in table :
            /\ r.swarm_id \in OldTerminalSwarms
            /\ Day(maxCompletedAt(table, r.swarm_id))
                 < Day(clock - cleaned'.retentionDays * TicksPerDay)}]_vars

\* a clean-up has deleted a whole swarm of two tasks and kept the other swarm
C30_CleanedWitness ==
  /\ cleaned.changes = MaxCleanTasks
  /\ rowsOf(table, "s1") = {}
  /\ rowsOf(table, "s2") # {}


\* ---------------------------------------------------------------------------
\* Claims about the synthesis step of executeDecomposed
\* ---------------------------------------------------------------------------
\* some subtask produced a result
SomeResult == \E i \in DOMAIN results : results[i] # Null

\* what executeDecomposed returns as synthesis
SynthesisAsClaimed ==
  epc = "returned" =>
    /\ synthesis = Null <=> (~ optSynthesize \/ ~ SomeResult)
    /\ synthesis # Null => synthesis \in {SynthesisText, resultsText(results)}

\* the synthesis call, settling either way, leaves success, results, errors
\* and every task row as they are
SynthesisChangesNothingElse ==
  epc = "synth" =>
    /\ tasks' = tasks
    /\ allSuccess' = allSuccess
    /\ results' = results
    /\ errors' = errors

\* C31: executeDecomposed returns synthesis = null exactly when
\* opts.synthesize is false or no subtask produced a result; otherwise
\* synthesis is the text of the one balanced-strategy router call, or the raw
\* concatenation of the '[description]: result' entries if that call fails; a
\* synthesis failure never changes success or any task row.
C31_SynthesisOrFallback ==
  [] SynthesisAsClaimed /\ [][SynthesisChangesNothingElse]_vars

\* the synthesis call failed after one subtask produced a result and another
\* failed: the returned synthesis is the single entry of the first
C31_FallbackWitness ==
  /\ epc = "returned"
  /\ optSynthesize
  /\ ~ allSuccess
  /\ Cardinality(DOMAIN results) = 2
  /\ results[1] = Null
  /\ synthesis = "[subtask 0]: result of subtask 0"


\* ---------------------------------------------------------------------------
\* Claims about getStaleTasks and the stale reset
\* ---------------------------------------------------------------------------

\* a step is a getStaleTasks call
GetStaleStep == staleSeen'.call # staleSeen.call

\* the claimed or running rows whose claimed_at lies more than staleMinutes
\* before now
OverdueIds(rows, now, staleMinutes) ==
  {i \in DOMAIN rows :
     /\ rows[i].status \in {"claimed", "running"}
     /\ InstantBefore(rows[i].claimed_at, now, staleMinutes)}

\* C32 (first part): getStaleTasks(m) returns exactly the tasks whose status is
\* claimed or running and whose claimed_at lies more than m minutes in the past
C32_ReturnsExactlyOverdue ==
  [][GetStaleStep =>
       staleSeen'.ids = OverdueIds(staleRows, clock, staleSeen'.staleMinutes)]_vars

\* C32, as far as the code goes: every task getStaleTasks(m) returns is claimed
\* or running and was claimed more than m minutes ago, and none is returned
\* at the time of its claim
C32_ReturnsOnlyOverdue ==
  [][GetStaleStep =>
       /\ staleSeen'.ids \subseteq
            OverdueIds(staleRows, clock, staleSeen'.staleMinutes)
       /\ \A i \in staleSeen'.ids : staleRows[i].claimed_at # clock]_vars

\* C32 (second part): with the periodic reset running, a task claimed on the
\* first day and held by a worker does not stay claimed or running for ever
C32_HeldTaskIsReleased ==
  \A i \in TaskIds :
    (staleRows[i].status \in {"claimed", "running"}
       /\ Day(staleRows[i].claimed_at) = 0)
      ~> (staleRows[i].status \notin {"claimed", "running"})

\* a getStaleTasks call left out a task claimed more than staleMinutes ago
C32_OverdueMissedWitness ==
  /\ staleSeen.call = 1
  /\ staleSeen.ids = {}
  /\ OverdueIds(staleRows, clock, staleSeen.staleMinutes) # {}


\* ---------------------------------------------------------------------------
\* Claims about the token refresh and the smoke test
\* ---------------------------------------------------------------------------

\* call c has sent its completion request with a token a refresh produced
SentWithNewToken(c) ==
  /\ provider = "openai"
  /\ asent[c] > 0
  /\ atoken[c] > 0

\* a smoke test issued with the token of call c has passed
SmokeTestedToken(c) ==
  \E k \in SmokeTests : stoken[k] = atoken[c] /\ sstatus[k] = "passed"

\* C33: after a token refresh, no completion request is sent with the new token
\* before a smoke test issued with that new token has passed (smoke tests not
\* switched off with SKIP_SMOKE_TEST)
C33_NewTokenSmokeTested ==
  ~skipSmoke => \A c \in Callers : SentWithNewToken(c) => SmokeTestedToken(c)

\* a completion request went out with the new token while the only smoke test
\* that passed was the one started with the old token, in flight during the
\* refresh
C33_OldSmokeTestWitness ==
  /\ ~skipSmoke
  /\ resets = 1
  /\ \E c \in Callers : SentWithNewToken(c) /\ ~SmokeTestedToken(c)
  /\ \E k \in SmokeTests : stoken[k] = 0 /\ sstatus[k] = "passed"
  /\ \A k \in SmokeTests : stoken[k] # 1


\* ---------------------------------------------------------------------------
\* Claims about the rows the executor works on
\* ---------------------------------------------------------------------------

\* C34 (as claimed): the row claimed, marked running and completed or failed on
\* behalf of subtask i is the row with seq i, and when the run has returned
\* row i carries the result or the error of subtask i.
C34_SubtaskWorksOnOwnRow ==
  /\ \A i \in Subtasks : eclaimed[i] \in {NoTask, i}
  /\ epc = "returned" =>
       \A i \in Subtasks :
         /\ tasks[i].status = "done" => tasks[i].result = results[i]
         /\ tasks[i].status = "failed" => tasks[i].error = errors[i]

\* C34, for decompositions without dependencies between subtasks: the
\* callbacks of the single level claim in index order, so subtask i holds row i
C34_OwnRowWithoutDependencies ==
  (\A i \in Subtasks : depends[i] = {}) =>
     \A i \in Subtasks : eclaimed[i] \in {NoTask, i}

\* a subtask holds the row of another subtask
C34_ForeignRowWitness ==
  \E i \in Subtasks : eclaimed[i] \notin {NoTask, i}


\* C35 (as claimed, the rows): when executeDecomposed has returned, every task
\* row of its swarm is done or failed.
C35_AllRowsSettledAtReturn ==
  epc = "returned" =>
    \A t \in DOMAIN tasks : tasks[t].status \in {"done", "failed"}

\* C35 (termination): executeDecomposed returns
C35_Terminates == <>(epc = "returned")

\* C35, as far as the code goes: when the run has returned no row is claimed
\* or running, and a row left pending is the row of a subtask that held a
\* foreign row or lost its own row to another subtask
C35_NoRowHeldAtReturn ==
  epc = "returned" =>
    \A t \in DOMAIN tasks :
      /\ tasks[t].status \in {"pending", "done", "failed"}
      /\ tasks[t].status = "pending" => \E i \in Subtasks : eclaimed[i] \notin {NoTask, i}

\* the run has returned and a row is still pending
C35_PendingRowWitness ==
  /\ epc = "returned"
  /\ \E t \in DOMAIN tasks : tasks[t].status = "pending"


\* ---------------------------------------------------------------------------
\* Claims about workers that claim with checkDeps
\* ---------------------------------------------------------------------------

\* C36 (as claimed): every task eventually reaches done or failed, so
\* isSwarmComplete eventually holds, also when some task ends failed.
C36_SwarmCompletes == <>isSwarmComplete(tasks)

\* C36, as far as the code goes: the swarm completes unless a task on which
\* another task depends has failed
C36_CompletesUnlessDependencyFailed ==
  <>(\/ isSwarmComplete(tasks)
     \/ \E t \in TaskIds : \E d \in depends[t] : tasks[d].status = "failed")

\* a task waits for a failed task while no worker holds anything
C36_BlockedWitness ==
  /\ \E t \in TaskIds : /\ tasks[t].status = "pending"
                        /\ \E d \in depends[t] : tasks[d].status = "failed"
  /\ \A w \in Workers : wheld[w] = NoTask /\ wpc[w] = "idle"


\* ---------------------------------------------------------------------------
\* Claims about read cursors
\* ---------------------------------------------------------------------------

\* the message agent a's cursor points to has been deleted
CursorRowGone(a) ==
  /\ cursors[a] # NoMsg
  /\ \A c \in msgs : c.id # cursors[a]

\* message m has not expired at time now
Unexpired(m, now) == m.expires_at = NoExpiry \/ m.expires_at > now

\* the ids readMessages(channel, {agentId: a}) would return now
NextRead(a) ==
  LET messages == readQuery(msgs, a, cursors[a], clock, DefaultLimit)
  IN {messages[k].id : k \in 1 .. Len(messages)}

\* C37 (as claimed): after cleanExpired deleted the message an agent's cursor
\* points to, the agent's next readMessages returns every later non-expired
\* message addressed to it.
C37_ReadsPastDeletedCursor ==
  \A a \in Agents :
    CursorRowGone(a) =>
      \A m \in msgs :
        (m.id > cursors[a] /\ m.recipient = a /\ Unexpired(m, clock))
          => m.id \in NextRead(a)

\* C37, as far as the code goes: with the cursor's message deleted the
\* agent's reads return nothing
C37_DeletedCursorReadsNothing ==
  \A a \in Agents : CursorRowGone(a) => NextRead(a) = {}

\* the cursor's message is deleted and a later message for the agent is there
C37_DeletedCursorWitness ==
  \E a \in Agents :
    /\ CursorRowGone(a)
    /\ \E m \in msgs :
         m.id > cursors[a] /\ m.recipient = a /\ Unexpired(m, clock)


\* a step is a readMessages call of the reader without type and since and
\* with the default limit
UnfilteredReadStep ==
  /\ lastRead'.call # lastRead.call
  /\ lastRead'.type = Undefined
  /\ lastRead'.since = NoSince
  /\ lastRead'.limit = DefaultLimit

\* the ids agent a's reads have returned
Delivered(a) == {delivered[a][k] : k \in 1 .. Len(delivered[a])}

\* C38 (as claimed): a message visible to the agent that a filtered or limited
\* read did not return is still returned by a later unfiltered read: after an
\* unfiltered read every message on the channel has been returned to the agent.
C38_NothingSkipped ==
  [][UnfilteredReadStep => \A m \in msgs : m.id \in Delivered(Reader)']_vars

\* a step is a readMessages call of the reader without type and since
LimitedReadStep ==
  /\ lastRead'.call # lastRead.call
  /\ lastRead'.type = Undefined
  /\ lastRead'.since = NoSince

\* C38, for the limit alone: when messages are posted one call after the
\* other, a read that only limits its result moves the cursor past the
\* messages it returned and no others
C38_LimitSkipsNothing ==
  [][LimitedReadStep =>
       \A m \in msgs :
         (m.id > cursors[Reader] /\ m.id <= cursors'[Reader])
           => m.id \in lastRead'.ids]_vars

\* a filtered read moved the cursor past a message it did not return
C38_SkippedWitness ==
  /\ lastRead.call = 1
  /\ lastRead.type = "task"
  /\ \E m \in msgs : m.id < cursors[Reader] /\ m.id \notin Delivered(Reader)


\* ---------------------------------------------------------------------------
\* Claims about a worker whose task was reset
\* ---------------------------------------------------------------------------

\* worker w still works on row t, which after a stale reset is claimed by
\* another worker
LostTo(w, t) ==
  /\ wheld[w] = t
  /\ tasks[t].agent_id \notin {w, Null}

\* C39 (as claimed): when a task claimed by worker A was reset and then claimed
\* by worker B, a completeTask or failTask issued by A for it changes nothing
\* of the row.
C39_LateWriteChangesNothing ==
  [][\A w \in Workers : \A t \in TaskIds :
       (LostTo(w, t) /\ wheld'[w] = NoTask) => tasks'[t] = tasks[t]]_vars

\* the row worker B holds is done or failed although B has not finished it
C39_OverwrittenWitness ==
  \E w \in Workers : \E t \in TaskIds :
    /\ wheld[w] = t
    /\ tasks[t].agent_id = w
    /\ tasks[t].status \in {"done", "failed"}


\* ---------------------------------------------------------------------------
\* Claims about the capability filter of resolveModel
\* ---------------------------------------------------------------------------

\* the last call was resolveModel(strategy, {capability}) with a capability
\* some registered model has and one of the strategies other than 'specific'
CapabilityAsked ==
  /\ resolved # NoResolve
  /\ resolved.strategy \in {"cheapest", "fastest", "best", "balanced"}
  /\ resolved.model = Undefined
  /\ resolved.capability \in RegistryCapabilities

\* the model returned has the capability asked for
InCandidatePool ==
  includes(getModelsWithCapability(resolved.capability), resolved.result)

\* C40 (as claimed): for every strategy other than specific and every content
\* of the call log, resolveModel(strategy, {capability}) returns a model that
\* has the capability, when some registered model has it.
C40_ResultHasCapability == CapabilityAsked => InCandidatePool

\* C40, for the strategies that rank the candidates: 'cheapest', 'fastest'
\* and 'best' return a model of the candidate pool
C40_RankedResultHasCapability ==
  (CapabilityAsked /\ resolved.strategy \in {"cheapest", "fastest", "best"})
    => InCandidatePool

\* 'balanced' with a capability claude-sonnet-4-5 lacks answered with
\* claude-sonnet-4-5
C40_BalancedLeavesPoolWitness ==
  /\ CapabilityAsked
  /\ resolved.strategy = "balanced"
  /\ resolved.capability = "multimodal"
  /\ resolved.result = "claude-sonnet-4-5"
  /\ "multimodal" \notin AGENT_REGISTRY["claude-sonnet-4-5"].capabilities
====
